---------------------------- MODULE Spec2Model ----------------------------
(***************************************************************************)
(* Bookmarks-Aware MCP server: the bookmark document (Chrome "Bookmarks"   *)
(* JSON file), the store operations of src/src/bookmarks_store.py, the     *)
(* change log of src/src/change_tracker.py and the tool handlers of        *)
(* src/src/server.py.                                                      *)
(*                                                                         *)
(* Encoding.  A Python str that the code parses (a folder path, a folder   *)
(* name, a title) is a sequence of tokens; the token "/" is the slash      *)
(* character and every other token stands for a slash-free run of          *)
(* characters.  A URL is never parsed and is a TLA+ string.  The JSON      *)
(* tree is an arena: a node is a handle (the identity of the Python dict)  *)
(* and `nodes` maps each handle to its fields; `children` is the ordered   *)
(* list of child handles.  Python's None is 0 for a handle and <<>> for an *)
(* optional value (<<v>> when present).                                    *)
(***************************************************************************)
EXTENDS Integers, Sequences, FiniteSets, TLC

(***************************************************************************)
(* Bounds of the model.                                                    *)
(***************************************************************************)
MaxNodes == 8
MaxOps == 2
MaxWrites == 2
MaxCalls == 3
MaxMsgs == 1

(***************************************************************************)
(* str.strip("/") and str.split("/")                                       *)
(***************************************************************************)
RECURSIVE LStrip(_)
LStrip(s) == IF s # <<>> /\ Head(s) = "/" THEN LStrip(Tail(s)) ELSE s

RECURSIVE RStrip(_)
RStrip(s) ==
    IF s # <<>> /\ s[Len(s)] = "/" THEN RStrip(SubSeq(s, 1, Len(s) - 1)) ELSE s

Strip(s) == RStrip(LStrip(s))

RECURSIVE Split(_)
Split(s) ==
    IF s = <<>> THEN << <<>> >>
    ELSE LET rest == Split(Tail(s))
         IN  IF Head(s) = "/" THEN << <<>> >> \o rest
             ELSE << <<Head(s)>> \o Head(rest) >> \o Tail(rest)

\* f"{path}/{folder_name}" if path else folder_name
JoinPath(path, name) == IF path # <<>> THEN path \o <<"/">> \o name ELSE name

(***************************************************************************)
(* The document                                                            *)
(***************************************************************************)
\* for root_name in ["bookmark_bar", "other", "synced"]
RootOrder == <<"bookmark_bar", "other", "synced">>

\* The document is a dict of "roots" and of further keys that the program
\* never reads (top), a node a dict of id, name, type, url, children and of
\* further keys (rest).  The dicts add_bookmark and create_folder build:
UrlNode(id, title, url) ==
    [type |-> "url", id |-> id, name |-> title, url |-> url, children |-> <<>>,
     rest |-> {"date_added", "date_last_used"}]

FolderNode(id, name, children) ==
    [type |-> "folder", id |-> id, name |-> name, url |-> "", children |-> children,
     rest |-> {"date_added", "date_last_used", "date_modified"}]

\* A document as the browser wrote it: its nodes and the document itself
\* carry the browser's own keys.
AsFound(d) ==
    [roots |-> d.roots,
     nodes |-> [h \in DOMAIN d.nodes |->
                    [d.nodes[h] EXCEPT !.rest = {"date_added", "guid", "meta_info"}]],
     top |-> {"checksum", "version"}]

IsFolder(d, h) == d.nodes[h].type = "folder"
IsUrl(d, h) == d.nodes[h].type = "url"

\* The handles a walk from h visits: h and everything below it.
RECURSIVE Subtree(_, _)
Subtree(d, h) ==
    {h} \cup UNION {Subtree(d, d.nodes[h].children[i]) :
                        i \in 1..Len(d.nodes[h].children)}

RootHandles(d) == {d.roots[k] : k \in DOMAIN d.roots}

(***************************************************************************)
(* _find_node_by_url: (node, parent, index) or None.  index is Python's    *)
(* 0-based position; a match on the start node itself has parent None and  *)
(* index -1.                                                               *)
(***************************************************************************)
NotFound == [node |-> 0, parent |-> 0, index |-> -1]

RECURSIVE FindNodeByUrl(_, _, _)
RECURSIVE ScanChildrenByUrl(_, _, _, _)
FindNodeByUrl(d, h, url) ==
    LET n == d.nodes[h]
    IN  IF n.type = "url" /\ n.url = url
        THEN [node |-> h, parent |-> 0, index |-> -1]
        ELSE IF n.type = "folder" THEN ScanChildrenByUrl(d, h, 1, url)
        ELSE NotFound

\* The scan from the last child to the first: the last match is kept.
RECURSIVE ScanChildrenByUrl_Reversed(_, _, _, _)
ScanChildrenByUrl_Reversed(d, h, i, url) ==
    LET ch == d.nodes[h].children
    IN  IF i > Len(ch) THEN NotFound
        ELSE LET later == ScanChildrenByUrl_Reversed(d, h, i + 1, url)
             IN  IF later.node # 0 THEN later
                 ELSE IF d.nodes[ch[i]].type = "url" /\ d.nodes[ch[i]].url = url
                 THEN [node |-> ch[i], parent |-> h, index |-> i - 1]
                 ELSE FindNodeByUrl(d, ch[i], url)

ScanChildrenByUrl(d, h, i, url) ==
    LET ch == d.nodes[h].children
    IN  IF i > Len(ch) THEN NotFound
        ELSE IF d.nodes[ch[i]].type = "url" /\ d.nodes[ch[i]].url = url
        THEN [node |-> ch[i], parent |-> h, index |-> i - 1]
        ELSE LET r == FindNodeByUrl(d, ch[i], url)
             IN  IF r.node # 0 THEN r ELSE ScanChildrenByUrl(d, h, i + 1, url)

\* The loop "for root_name in [...]: if root_name in roots: result = ..."
\* of move/rename/delete, from position k of RootOrder: the first result.
RECURSIVE LocateFrom(_, _, _)
LocateFrom(d, url, k) ==
    IF k > Len(RootOrder) THEN NotFound
    ELSE IF RootOrder[k] \in DOMAIN d.roots
    THEN LET r == FindNodeByUrl(d, d.roots[RootOrder[k]], url)
         IN  IF r.node # 0 THEN r ELSE LocateFrom(d, url, k + 1)
    ELSE LocateFrom(d, url, k + 1)

LocateByUrl(d, url) == LocateFrom(d, url, 1)

(***************************************************************************)
(* _find_folder_by_path: the folder's handle, or 0 for None.               *)
(***************************************************************************)
\* The scan without its break: the last folder child named part is kept.
RECURSIVE FirstFolderNamed_Last(_, _, _, _)
FirstFolderNamed_Last(d, h, i, part) ==
    LET ch == d.nodes[h].children
    IN  IF i > Len(ch) THEN 0
        ELSE LET later == FirstFolderNamed_Last(d, h, i + 1, part)
             IN  IF later # 0 THEN later
                 ELSE IF d.nodes[ch[i]].type = "folder" /\ d.nodes[ch[i]].name = part
                 THEN ch[i]
                 ELSE 0

\* The first child of h, from position i, that is a folder named part.
RECURSIVE FirstFolderNamed(_, _, _, _)
FirstFolderNamed(d, h, i, part) ==
    LET ch == d.nodes[h].children
    IN  IF i > Len(ch) THEN 0
        ELSE IF d.nodes[ch[i]].type = "folder" /\ d.nodes[ch[i]].name = part
        THEN ch[i]
        ELSE FirstFolderNamed(d, h, i + 1, part)

RECURSIVE WalkParts(_, _, _)
WalkParts(d, current, parts) ==
    IF parts = <<>>
    THEN IF d.nodes[current].type = "folder" THEN current ELSE 0
    ELSE LET next == IF d.nodes[current].type = "folder"
                     THEN FirstFolderNamed(d, current, 1, Head(parts))
                     ELSE 0
         IN  IF next = 0 THEN 0 ELSE WalkParts(d, next, Tail(parts))

\* parts = folder_path.strip("/").split("/"): the root lookup and the walk.
ResolveParts(d, parts) ==
    IF Len(parts[1]) = 1 /\ parts[1][1] \in DOMAIN d.roots
    THEN WalkParts(d, d.roots[parts[1][1]], Tail(parts))
    ELSE 0

FindFolderByPath(d, folder_path) == ResolveParts(d, Split(Strip(folder_path)))

(***************************************************************************)
(* extract_bookmarks / read_chrome_bookmarks: the flattened listing.       *)
(***************************************************************************)
RECURSIVE ExtractBookmarks(_, _, _)
RECURSIVE ExtractChildren(_, _, _, _)
ExtractBookmarks(d, h, path) ==
    LET n == d.nodes[h]
    IN  IF n.type = "url"
        THEN << [id |-> n.id, url |-> n.url, title |-> n.name, folder |-> path] >>
        ELSE IF n.type = "folder"
        THEN ExtractChildren(d, h, 1, JoinPath(path, n.name))
        ELSE <<>>

ExtractChildren(d, h, i, path) ==
    LET ch == d.nodes[h].children
    IN  IF i > Len(ch) THEN <<>>
        ELSE ExtractBookmarks(d, ch[i], path) \o ExtractChildren(d, h, i + 1, path)

RECURSIVE ReadRootsFrom(_, _)
ReadRootsFrom(d, k) ==
    IF k > Len(RootOrder) THEN <<>>
    ELSE (IF RootOrder[k] \in DOMAIN d.roots
          THEN ExtractChildren(d, d.roots[RootOrder[k]], 1, <<RootOrder[k]>>)
          ELSE <<>>)
         \o ReadRootsFrom(d, k + 1)

ReadChromeBookmarks(d) == ReadRootsFrom(d, 1)

(***************************************************************************)
(* get_folder_structure: the folders dict, a function from path to the     *)
(* tallies of the folder's immediate children.  The entries are produced   *)
(* in traversal order; a later entry replaces an earlier one of the same   *)
(* path.                                                                   *)
(***************************************************************************)
\* sum(1 for child in node["children"] if child["type"] == type)
CountChildren(d, h, type) ==
    Cardinality({i \in 1..Len(d.nodes[h].children) :
                    d.nodes[d.nodes[h].children[i]].type = type})

FolderEntry(d, h, path) ==
    [path |-> path, bookmarks |-> CountChildren(d, h, "url"),
     subfolders |-> CountChildren(d, h, "folder")]

RECURSIVE Traverse(_, _, _)
RECURSIVE TraverseChildren(_, _, _, _)
Traverse(d, h, path) ==
    IF d.nodes[h].type = "folder"
    THEN LET current_path == JoinPath(path, d.nodes[h].name)
         IN  <<FolderEntry(d, h, current_path)>> \o TraverseChildren(d, h, 1, current_path)
    ELSE <<>>

TraverseChildren(d, h, i, path) ==
    IF i > Len(d.nodes[h].children) THEN <<>>
    ELSE Traverse(d, d.nodes[h].children[i], path) \o TraverseChildren(d, h, i + 1, path)

RECURSIVE StructureFrom(_, _)
StructureFrom(d, k) ==
    IF k > Len(RootOrder) THEN <<>>
    ELSE (IF RootOrder[k] \in DOMAIN d.roots
          THEN <<FolderEntry(d, d.roots[RootOrder[k]], <<RootOrder[k]>>)>>
               \o TraverseChildren(d, d.roots[RootOrder[k]], 1, <<RootOrder[k]>>)
          ELSE <<>>)
         \o StructureFrom(d, k + 1)

\* folders[current_path] = {...}: the last entry written under a path stays.
AsDict(entries) ==
    [p \in {entries[i].path : i \in 1..Len(entries)} |->
        LET last == CHOOSE i \in 1..Len(entries) :
                        /\ entries[i].path = p
                        /\ \A j \in (i + 1)..Len(entries) : entries[j].path # p
        IN  [bookmarks |-> entries[last].bookmarks,
             subfolders |-> entries[last].subfolders]]

GetFolderStructure(d) == AsDict(StructureFrom(d, 1))

(***************************************************************************)
(* In-memory mutation of the loaded document.  Each operator returns       *)
(* [ok, count, doc]: whether the store function goes on to write, the      *)
(* number of moved items (bulk) and the mutated tree.                      *)
(***************************************************************************)
RemoveAt(seq, i) == SubSeq(seq, 1, i - 1) \o SubSeq(seq, i + 1, Len(seq))

\* pop(index - 1): the position taken as 1-based.
PopChild_OffByOne(d, parent, index) ==
    [d EXCEPT !.nodes[parent].children = RemoveAt(@, index)]

\* parent_node["children"].pop(index)
PopChild(d, parent, index) ==
    [d EXCEPT !.nodes[parent].children = RemoveAt(@, index + 1)]

\* insert(0, node) in place of append(node).
AppendChild_First(d, folder, h) ==
    [d EXCEPT !.nodes[folder].children = <<h>> \o @]

\* target_folder.setdefault("children", []).append(node)
AppendChild(d, folder, h) ==
    [d EXCEPT !.nodes[folder].children = Append(@, h)]

\* A new dict: the least handle not in use.
NewHandle(d) == CHOOSE h \in 1..(MaxNodes + 1) :
                    /\ h \notin DOMAIN d.nodes
                    /\ \A g \in 1..(h - 1) : g \in DOMAIN d.nodes

\* new_bookmark = {...} / new_folder = {...}, not yet linked into the tree.
WithNode(d, h, node) ==
    [d EXCEPT !.nodes = [x \in DOMAIN d.nodes \cup {h} |->
                            IF x = h THEN node ELSE d.nodes[x]]]

\* str(int(time.time() * 1000000)): the clock reading is the id.
GenerateId(now) == now

\* What a store function has decided when it has searched and mutated the
\* loaded document: ret is "true" (it goes on to write) or "false".
\* A failed search reported as done.
Unchanged_Done(d) == [ret |-> "true", count |-> 1, doc |-> d]

Unchanged(d) == [ret |-> "false", count |-> 0, doc |-> d]
Mutated(d, n) == [ret |-> "true", count |-> n, doc |-> d]

\* The append without the pop.
Relink_NoPop(d, r, target) == AppendChild(d, target, r.node)

\* The pop and the append of move_bookmark and bulk_move_bookmarks.
Relink(d, r, target) == AppendChild(PopChild(d, r.parent, r.index), target, r.node)

\* The pop placed before the target folder is resolved, and the write after it.
MoveNode_PopFirst(d, r, target) ==
    IF r.node = 0 \/ r.parent = 0 THEN Unchanged(d)
    ELSE Mutated(IF target = 0 THEN PopChild(d, r.parent, r.index)
                 ELSE Relink(d, r, target), 1)

\* move_bookmark once the bookmark is searched (r) and the target resolved.
MoveNode(d, r, target) ==
    IF r.node = 0 THEN Unchanged(d)
    ELSE IF r.parent = 0 THEN Unchanged(d)
    ELSE IF target = 0 THEN Unchanged(d)
    ELSE Mutated(Relink(d, r, target), 1)

MoveMutate(d, url, target_folder_path) ==
    MoveNode(d, LocateByUrl(d, url), FindFolderByPath(d, target_folder_path))

\* The new title given to the folder the bookmark is in.
RenameNode_Parent(d, r, new_title) ==
    IF r.node = 0 THEN Unchanged(d)
    ELSE IF r.parent = 0 THEN Unchanged(d)
    ELSE Mutated([d EXCEPT !.nodes[r.parent].name = new_title], 1)

\* The node replaced by a dict built anew from id, name and url.
RenameNode_Rebuild(d, r, new_title) ==
    IF r.node = 0 THEN Unchanged(d)
    ELSE Mutated([d EXCEPT !.nodes[r.node] =
                        UrlNode(d.nodes[r.node].id, new_title, d.nodes[r.node].url)], 1)

\* rename_bookmark once the bookmark is searched: bookmark_node["name"] = new_title
RenameNode(d, r, new_title) ==
    IF r.node = 0 THEN Unchanged(d)
    ELSE Mutated([d EXCEPT !.nodes[r.node].name = new_title], 1)

RenameMutate(d, url, new_title) == RenameNode(d, LocateByUrl(d, url), new_title)

\* The parent's children list emptied instead of the one pop.
DeleteNode_AllSiblings(d, r) ==
    IF r.node = 0 THEN Unchanged(d)
    ELSE IF r.parent = 0 THEN Unchanged(d)
    ELSE Mutated([d EXCEPT !.nodes[r.parent].children = <<>>], 1)

\* delete_bookmark once the bookmark is searched.
DeleteNode(d, r) ==
    IF r.node = 0 THEN Unchanged(d)
    ELSE IF r.parent = 0 THEN Unchanged(d)
    ELSE Mutated(PopChild(d, r.parent, r.index), 1)

DeleteMutate(d, url) == DeleteNode(d, LocateByUrl(d, url))

\* The new node is appended under the bookmark bar whatever folder was named.
InsertNew_AtRoot(d, folder, h, node) ==
    IF folder = 0 THEN Unchanged(d)
    ELSE Mutated(AppendChild(WithNode(d, h, node), d.roots["bookmark_bar"], h), 1)

\* create_folder and add_bookmark once the folder is resolved: the new dict
\* (handle h) is appended to the folder's children.
InsertNew(d, folder, h, node) ==
    IF folder = 0 THEN Unchanged(d)
    ELSE Mutated(AppendChild(WithNode(d, h, node), folder, h), 1)

CreateFolderMutate(d, folder_name, parent_folder_path, now) ==
    InsertNew(d, FindFolderByPath(d, parent_folder_path), NewHandle(d),
              FolderNode(GenerateId(now), folder_name, <<>>))

AddMutate(d, url, title, folder_path, now) ==
    InsertNew(d, FindFolderByPath(d, folder_path), NewHandle(d),
              UrlNode(GenerateId(now), title, url))

\* One root of the loop of bulk_move_bookmarks: a match that cannot be moved
\* (no parent, or no target folder) is passed over ("continue") and the
\* search goes on in the next root (otherwise).
BulkItemAt(d, r, target, otherwise) ==
    IF r.node = 0 \/ r.parent = 0 \/ target = 0 THEN otherwise
    ELSE Mutated(Relink(d, r, target), 1)

\* One item of bulk_move_bookmarks: the loop over the roots from position k.
RECURSIVE BulkItemFrom(_, _, _, _)
BulkItemFrom(d, url, target_path, k) ==
    IF k > Len(RootOrder) THEN Unchanged(d)
    ELSE IF RootOrder[k] \notin DOMAIN d.roots
    THEN BulkItemFrom(d, url, target_path, k + 1)
    ELSE BulkItemAt(d, FindNodeByUrl(d, d.roots[RootOrder[k]], url),
                    FindFolderByPath(d, target_path),
                    BulkItemFrom(d, url, target_path, k + 1))

\* moves: a sequence of [url, target_folder]; "" and <<>> are the falsy values.
\* BulkNext goes on from the outcome r of item i.
RECURSIVE BulkMutateFrom(_, _, _, _)
RECURSIVE BulkNext(_, _, _, _)
BulkMutateFrom(d, moves, i, success_count) ==
    IF i > Len(moves)
    THEN IF success_count > 0 THEN Mutated(d, success_count) ELSE Unchanged(d)
    ELSE IF moves[i].url = "" \/ moves[i].target_folder = <<>>
    THEN BulkMutateFrom(d, moves, i + 1, success_count)
    ELSE BulkNext(BulkItemFrom(d, moves[i].url, moves[i].target_folder, 1),
                  moves, i, success_count)

\* The loop over moves left at the first item that could not be moved.
BulkNext_Abort(r, moves, i, success_count) ==
    IF r.count = 0
    THEN IF success_count > 0 THEN Mutated(r.doc, success_count) ELSE Unchanged(r.doc)
    ELSE BulkMutateFrom(r.doc, moves, i + 1, success_count + r.count)

\* Every item that was tried is counted, moved or not.
BulkNext_CountAll(r, moves, i, success_count) ==
    BulkMutateFrom(r.doc, moves, i + 1, success_count + 1)

BulkNext(r, moves, i, success_count) ==
    BulkMutateFrom(r.doc, moves, i + 1, success_count + r.count)

BulkMutate(d, moves) == BulkMutateFrom(d, moves, 1, 0)

(***************************************************************************)
(* A request to the store: the function called and its arguments.          *)
(***************************************************************************)
Req(tool, url, title, path, moves) ==
    [tool |-> tool, url |-> url, title |-> title, path |-> path, moves |-> moves]

Mutate(req, d, now) ==
    CASE req.tool = "add" -> AddMutate(d, req.url, req.title, req.path, now)
      [] req.tool = "move" -> MoveMutate(d, req.url, req.path)
      [] req.tool = "rename" -> RenameMutate(d, req.url, req.title)
      [] req.tool = "delete" -> DeleteMutate(d, req.url)
      [] req.tool = "create_folder" -> CreateFolderMutate(d, req.title, req.path, now)
      [] req.tool = "bulk_move" -> BulkMutate(d, req.moves)

\* Whether the request may allocate a node (add_bookmark, create_folder).
Creates(req) == req.tool \in {"add", "create_folder"}

(***************************************************************************)
(* Files.  A path holds no file, a complete JSON document, or bytes that   *)
(* are not a complete document (a file opened for writing and not yet      *)
(* fully written).  fs is the directory of the bookmarks file: the         *)
(* document, its .bak sibling and its .tmp sibling.                        *)
(***************************************************************************)
NoDoc == [roots |-> <<>>, nodes |-> <<>>, top |-> {}]
AbsentFile == [st |-> "absent", data |-> NoDoc]
PartialFile == [st |-> "partial", data |-> NoDoc]
OkFile(d) == [st |-> "ok", data |-> d]

\* json.dump writes what is reachable from the top-level object.
Serialize(d) ==
    LET live == UNION {Subtree(d, d.roots[k]) : k \in DOMAIN d.roots}
    IN  [d EXCEPT !.nodes = [h \in live |-> d.nodes[h]]]

\* shutil.copy2(bookmarks_path, backup_path)
BackupBookmarks(f) == [f EXCEPT !.bak = f.doc]

\* open(temp_path, "w"): creates the file, or truncates the one that is there.
OpenTemp(f) == [f EXCEPT !.tmp = PartialFile]

\* json.dump(bookmarks_data, f, indent=3) and the close of the with-block:
\* the bytes go to the file the descriptor is open on, under whatever path
\* names that file now ("gone": no path names it any more).
DumpAt(f, at, d) ==
    CASE at = "tmp" -> [f EXCEPT !.tmp = OkFile(Serialize(d))]
      [] at = "doc" -> [f EXCEPT !.doc = OkFile(Serialize(d))]
      [] OTHER -> f

DumpTemp(f, d) == DumpAt(f, "tmp", d)

\* temp_path.replace(bookmarks_path)
ReplaceTemp(f) == [f EXCEPT !.doc = f.tmp, !.tmp = AbsentFile]

WriteBookmarksFile(f, d) == ReplaceTemp(DumpTemp(OpenTemp(f), d))

\* A value that stands for Python's None where a str is expected.
NoneStr == <<"None">>

(***************************************************************************)
(* A store function run from its first to its last statement with nothing  *)
(* else touching the directory (the functions are synchronous, so this is  *)
(* how one server process runs them).  ret is "true", "false" or "raise".  *)
(***************************************************************************)
\* From load_bookmarks_file to the decision to write: [ret, count, doc].
InMemory(f, req, now) ==
    IF f.doc.st # "ok"
    THEN [ret |-> "raise", count |-> 0, doc |-> NoDoc]       \* JSONDecodeError
    ELSE IF req.tool = "add" /\ req.path = NoneStr
    THEN [ret |-> "raise", count |-> 0, doc |-> NoDoc]       \* None.strip
    ELSE Mutate(req, f.doc.data, now)

\* The end of a store function on the backed-up directory b: the write and
\* True, or the return without a write.
Conclude(b, m) ==
    IF m.ret = "true"
    THEN [fs |-> WriteBookmarksFile(b, m.doc), ret |-> "true", count |-> m.count]
    ELSE [fs |-> b, ret |-> m.ret, count |-> 0]

\* The backup taken after the write instead of first.
StoreCall_BackupLast(f, req, now) ==
    IF f.doc.st = "absent"
    THEN [fs |-> f, ret |-> "raise", count |-> 0]
    ELSE [Conclude(f, InMemory(f, req, now)) EXCEPT !.fs = BackupBookmarks(@)]

StoreCall(f, req, now) ==
    IF f.doc.st = "absent"
    THEN [fs |-> f, ret |-> "raise", count |-> 0]        \* copy2: FileNotFoundError
    ELSE Conclude(BackupBookmarks(f), InMemory(BackupBookmarks(f), req, now))

(***************************************************************************)
(* The change log (table bookmark_changes).                                *)
(***************************************************************************)
None == <<>>
Some(v) == <<v>>
\* Python truthiness of an optional str: neither None nor "".
Truthy(opt) == opt # <<>> /\ opt[1] # <<>>

RECURSIVE MaxId(_)
MaxId(rows) ==
    IF rows = <<>> THEN 0
    ELSE LET m == MaxId(Tail(rows))
         IN  IF Head(rows).id > m THEN Head(rows).id ELSE m

\* INSERT INTO bookmark_changes (...) VALUES (?, ?, ?, ?, 0); id INTEGER
\* PRIMARY KEY AUTOINCREMENT: one more than the largest id.
RecordChange(rows, action, url, details) ==
    Append(rows, [id |-> MaxId(rows) + 1, action |-> action, url |-> url,
                  details |-> details, reverted |-> FALSE])

\* SELECT * FROM bookmark_changes WHERE reverted = 0 ORDER BY id DESC LIMIT 1:
\* rows are stored in id order, so this is the last row, from position i
\* down, that is not reverted.  None or Some(row).
RECURSIVE LastRevertableFrom(_, _)
LastRevertableFrom(rows, i) ==
    IF i = 0 THEN None
    ELSE IF ~rows[i].reverted THEN Some(rows[i])
    ELSE LastRevertableFrom(rows, i - 1)

\* ORDER BY id ASC instead of DESC: the oldest unreverted row.
GetLastRevertable_Oldest(rows) ==
    IF \A i \in 1..Len(rows) : rows[i].reverted THEN None
    ELSE Some(rows[CHOOSE i \in 1..Len(rows) :
                    ~rows[i].reverted /\ \A j \in 1..(i - 1) : rows[j].reverted])

GetLastRevertable(rows) == LastRevertableFrom(rows, Len(rows))

\* The UPDATE left out.
MarkReverted_Skip(rows, change_id) == rows

\* UPDATE ... WHERE id <= ?: the row and every older one.
MarkReverted_UpTo(rows, change_id) ==
    [i \in 1..Len(rows) |->
        IF rows[i].id <= change_id THEN [rows[i] EXCEPT !.reverted = TRUE]
        ELSE rows[i]]

\* DELETE FROM bookmark_changes WHERE id = ? instead of the UPDATE.
MarkReverted_Delete(rows, change_id) ==
    SelectSeq(rows, LAMBDA row : row.id # change_id)

\* The undo written to the table as a row of its own.
MarkReverted_Append(rows, change_id) ==
    Append([i \in 1..Len(rows) |->
                IF rows[i].id = change_id THEN [rows[i] EXCEPT !.reverted = TRUE]
                ELSE rows[i]],
           [id |-> Len(rows) + 1, action |-> "revert", url |-> "",
            details |-> [change_id |-> change_id], reverted |-> FALSE])

\* UPDATE bookmark_changes SET reverted = 1 WHERE id = ?
MarkReverted(rows, change_id) ==
    [i \in 1..Len(rows) |->
        IF rows[i].id = change_id THEN [rows[i] EXCEPT !.reverted = TRUE]
        ELSE rows[i]]

(***************************************************************************)
(* The bookmark list cache of the server (_bookmarks_cache).               *)
(***************************************************************************)
NoCache == [valid |-> FALSE, list |-> <<>>]

\* The assignment left out: the cache keeps its list.
InvalidateBookmarksCache_Keep(c) == c

\* invalidate_bookmarks_cache(): _bookmarks_cache = None
InvalidateBookmarksCache(c) == NoCache

\* load_bookmarks(): the cached list, or a fresh read ([] when the read fails).
LoadBookmarks(c, f) ==
    IF c.valid THEN c
    ELSE [valid |-> TRUE,
          list |-> IF f.doc.st = "ok" THEN ReadChromeBookmarks(f.doc.data) ELSE <<>>]

\* next((b for b in bookmarks if b["url"] == url), None)
RECURSIVE FirstWithUrl(_, _)
FirstWithUrl(list, url) ==
    IF list = <<>> THEN None
    ELSE IF Head(list).url = url THEN Some(Head(list))
    ELSE FirstWithUrl(Tail(list), url)

(***************************************************************************)
(* The tool handlers of server.py.  A handler runs on the event loop of    *)
(* the server: what lies between two suspensions (an await on the          *)
(* database connection) is one step, and the steps of the handlers of      *)
(* concurrent requests interleave.                                         *)
(***************************************************************************)
\* The before-state captured for one item of bulk_reorganize_tool.
RECURSIVE BeforeState(_, _)
BeforeState(list, moves) ==
    IF moves = <<>> THEN <<>>
    ELSE LET bm == FirstWithUrl(list, Head(moves).url)
         IN  (IF bm # None
              THEN << [url |-> bm[1].url, original_folder |-> bm[1].folder,
                       target_folder |-> Head(moves).target_folder] >>
              ELSE <<>>)
             \o BeforeState(list, Tail(moves))

\* The details dict a tool records; list is what load_bookmarks() returned
\* before the store call, count the store call's success count.
ToolDetails(r, list, count) ==
    LET bm == FirstWithUrl(list, r.url)
    IN  CASE r.tool = "add" -> [title |-> r.title, folder |-> r.path]
          [] r.tool = "move" ->
                [from_folder |-> IF bm # None THEN Some(bm[1].folder) ELSE None,
                 to_folder |-> r.path]
          [] r.tool = "rename" ->
                [old_title |-> IF bm # None THEN Some(bm[1].title) ELSE None,
                 new_title |-> r.title]
          [] r.tool = "delete" ->
                [title |-> IF bm # None THEN Some(bm[1].title) ELSE None,
                 folder |-> IF bm # None THEN Some(bm[1].folder) ELSE None]
          [] r.tool = "create_folder" ->
                [folder_name |-> r.title, parent_folder |-> r.path,
                 full_path |-> r.path \o <<"/">> \o r.title]
          [] r.tool = "bulk_move" ->
                [moves |-> BeforeState(list, r.moves), success_count |-> count,
                 total_requested |-> Len(r.moves)]

\* The url column: None (here "") for folder and bulk operations.
ToolUrl(r) == IF r.tool \in {"create_folder", "bulk_move"} THEN "" ELSE r.url

\* The tools that call load_bookmarks() to capture the before-state.
ReadsCache(r) == r.tool \in {"move", "rename", "delete", "bulk_move"}

RECURSIVE RevertMoves(_)
RevertMoves(moves_data) ==
    IF moves_data = <<>> THEN <<>>
    ELSE (IF Head(moves_data).url # "" /\ Head(moves_data).original_folder # <<>>
          THEN << [url |-> Head(moves_data).url,
                   target_folder |-> Head(moves_data).original_folder] >>
          ELSE <<>>)
         \o RevertMoves(Tail(moves_data))

\* The store call revert_last_change_tool makes for a change: Some(request),
\* or None when it makes none (success stays False).
InverseReq(change) ==
    LET details == change.details
        url == change.url
    IN  CASE change.action = "move" ->
                IF url # "" /\ Truthy(details.from_folder)
                THEN Some(Req("move", url, <<>>, details.from_folder[1], <<>>))
                ELSE None
          [] change.action = "rename" ->
                IF url # "" /\ Truthy(details.old_title)
                THEN Some(Req("rename", url, details.old_title[1], <<>>, <<>>))
                ELSE None
          [] change.action = "delete" ->
                IF url # ""
                THEN Some(Req("add", url,
                              IF details.title = None THEN NoneStr ELSE details.title[1],
                              IF details.folder = None THEN NoneStr ELSE details.folder[1],
                              <<>>))
                ELSE None
          [] change.action = "add" ->
                IF url # "" THEN Some(Req("delete", url, <<>>, <<>>, <<>>)) ELSE None
          [] change.action = "bulk_move" ->
                IF RevertMoves(details.moves) # <<>>
                THEN Some(Req("bulk_move", "", <<>>, <<>>, RevertMoves(details.moves)))
                ELSE None
          [] OTHER -> None

(***************************************************************************)
(* State                                                                   *)
(***************************************************************************)
VARIABLES
    fs,        \* the bookmarks file, its .bak and its .tmp
    clock,     \* the last reading of time.time(), in clock resolution units
    cache,     \* server._bookmarks_cache
    tracker,   \* change_tracker._change_tracker: "none", "created", "ready"
    log,       \* the rows of bookmark_changes
    pc,        \* per request handler: where it is suspended
    req,       \* per request handler: the tool call it serves
    loc,       \* per request handler: its locals (details / change)
    result,    \* per request handler: the tool and the outcome of its last call
    nops,      \* tool calls made so far
    commits,   \* document writes committed: [tool |-> n, undo |-> n]
    wpc,       \* per writer process: the statement of the store function it is at
    wreq,      \* per writer process: the store call it runs
    wmem,      \* per writer process: bookmarks_data, the document in its memory
    wfd,       \* per writer process: the path that names the file it holds open
    wret,      \* per writer process: how its store call ended
    doc0,      \* the document a sequence of store calls started from
    hist,      \* the store calls of that sequence: [req, ret] each
    server,    \* ChromeBridge._server: "none", "serving", "closing"
    running,   \* ChromeBridge._running
    ws,        \* ChromeBridge._ws: the connection it names, 0 for None
    connected, \* ChromeBridge._connected
    pending,   \* ChromeBridge._pending: command id -> state of its future
    conn,      \* per extension connection: the socket and its _handler task
    wire,      \* per extension connection: the frames received and not yet read
    cmd        \* per command: where its _send_command is, or how it ended

handlerVars == <<cache, tracker, log, pc, req, loc, result, nops, commits>>
writerVars == <<wpc, wreq, wmem, wfd, wret>>
storeVars == <<doc0, hist>>
bridgeVars == <<server, running, ws, connected, pending, conn, wire, cmd>>
vars == <<fs, clock, handlerVars, writerVars, storeVars, bridgeVars>>

Tasks == {1, 2}
Writers == {1, 2}

T1 == <<"t1">>
T2 == <<"t2">>
BB == <<"bookmark_bar">>
BBW == <<"bookmark_bar", "/", "W">>
BBX == <<"bookmark_bar", "/", "X">>

ClockStart == 10

\* The document the server starts on: the bookmark bar holds u1 and the
\* folder W, which holds u2.
InitDoc ==
    AsFound(
    [roots |-> [bookmark_bar |-> 1, other |-> 2, synced |-> 3],
     nodes |-> [h \in 1..6 |->
        CASE h = 1 -> FolderNode(1, <<"Bookmarks Bar">>, <<4, 5>>)
          [] h = 2 -> FolderNode(2, <<"Other Bookmarks">>, <<>>)
          [] h = 3 -> FolderNode(3, <<"Mobile Bookmarks">>, <<>>)
          [] h = 4 -> UrlNode(4, T1, "u1")
          [] h = 5 -> FolderNode(5, <<"W">>, <<6>>)
          [] h = 6 -> UrlNode(6, T1, "u2")]])

\* The rows an earlier session of the server left in the database: u1 was
\* renamed from t2 to t1, the folder W was created, and u1 was moved to W
\* and that move was reverted.
InitLog ==
    << [id |-> 1, action |-> "rename", url |-> "u1",
        details |-> [old_title |-> Some(T2), new_title |-> T1], reverted |-> FALSE],
       [id |-> 2, action |-> "create_folder", url |-> "",
        details |-> [folder_name |-> <<"W">>, parent_folder |-> BB, full_path |-> BBW],
        reverted |-> FALSE],
       [id |-> 3, action |-> "move", url |-> "u1",
        details |-> [from_folder |-> Some(BB), to_folder |-> BBW], reverted |-> TRUE] >>

NoReq == Req("none", "", <<>>, <<>>, <<>>)
NoLoc == [none |-> TRUE]
Outcome(tool, st) == [tool |-> tool, st |-> st]

\* No writer process runs beside the server; no store-call sequence is followed.
WritersIdle ==
    /\ wpc = [w \in Writers |-> "idle"]
    /\ wreq = [w \in Writers |-> NoReq]
    /\ wmem = [w \in Writers |-> NoDoc]
    /\ wfd = [w \in Writers |-> "none"]
    /\ wret = [w \in Writers |-> "none"]

NoSequence == doc0 = NoDoc /\ hist = <<>>

Conns == {1, 2}
Cmds == {1, 2}

\* A command not yet issued; st is where _send_command is or how it ended,
\* via the connection its frame was sent on (0: no frame was sent).
NewCmd == [st |-> "new", via |-> 0]

\* ChromeBridge.__init__; no connection was made and no command issued.
BridgeDown ==
    /\ server = "none"
    /\ running = FALSE
    /\ ws = 0
    /\ connected = FALSE
    /\ pending = <<>>
    /\ conn = [c \in Conns |-> "none"]
    /\ wire = [c \in Conns |-> <<>>]
    /\ cmd = [k \in Cmds |-> NewCmd]

\* The server has served no request yet.
HandlersIdle ==
    /\ cache = NoCache
    /\ tracker = "none"
    /\ log = InitLog
    /\ pc = [t \in Tasks |-> "idle"]
    /\ req = [t \in Tasks |-> NoReq]
    /\ loc = [t \in Tasks |-> NoLoc]
    /\ result = [t \in Tasks |-> Outcome("none", "none")]
    /\ nops = 0
    /\ commits = [tool |-> 0, undo |-> 0]

Init ==
    /\ fs = [doc |-> OkFile(InitDoc), bak |-> AbsentFile, tmp |-> AbsentFile]
    /\ clock = ClockStart
    /\ HandlersIdle
    /\ WritersIdle
    /\ BridgeDown
    /\ NoSequence

(***************************************************************************)
(* The tool calls a client makes.                                          *)
(***************************************************************************)
\* moves: u1 to W (valid), u3 to W (no such bookmark), u2 to X (no such folder)
BulkLists ==
    LET a == [url |-> "u1", target_folder |-> BBW]
        b == [url |-> "u3", target_folder |-> BBW]
        c == [url |-> "u2", target_folder |-> BBX]
    IN  { <<a>>, <<b>>, <<b, a>>, <<a, c>>, <<c, b>> }

ToolRequests ==
    { Req("add", "u3", T2, BBW, <<>>), Req("add", "u1", T2, BBW, <<>>),
      Req("add", "u3", T2, BBX, <<>>) }
    \cup { Req("move", "u1", <<>>, BB, <<>>), Req("move", "u1", <<>>, BBW, <<>>),
           Req("move", "u2", <<>>, BB, <<>>), Req("move", "u3", <<>>, BB, <<>>),
           Req("move", "u1", <<>>, BBX, <<>>) }
    \cup { Req("rename", u, T2, <<>>, <<>>) : u \in {"u2", "u3"} }
    \cup { Req("delete", u, <<>>, <<>>, <<>>) : u \in {"u1", "u3"} }
    \cup { Req("create_folder", "", <<"W">>, BB, <<>>),
           Req("create_folder", "", <<"X">>, BB, <<>>),
           Req("create_folder", "", <<"X">>, BBX, <<>>) }
    \cup { Req("bulk_move", "", <<>>, <<>>, m) : m \in BulkLists }

HasRoom == fs.doc.st = "ok" => Cardinality(DOMAIN fs.doc.data.nodes) < MaxNodes

\* The readings time.time() can return for a call: not before the last one.
Readings(r) == IF Creates(r) THEN {clock, clock + 1} ELSE {clock}

\* A request is served by the first handler that is free.
Free(t) == pc[t] = "idle" /\ \A u \in Tasks : u < t => pc[u] # "idle"

\* tracker = await get_change_tracker(), then the first await of the
\* tracker method called on it: where the handler is suspended next, or
\* "raise" when the method finds no connection (RuntimeError).
AfterGetTracker(next) ==
    CASE tracker = "none" -> "init"
      [] tracker = "created" -> "raise"
      [] tracker = "ready" -> next

(***************************************************************************)
(* add_bookmark_tool, move_bookmark_tool, rename_bookmark_tool,            *)
(* delete_bookmark_tool, create_folder_tool, bulk_reorganize_tool: from    *)
(* the call to the first suspension.                                       *)
(***************************************************************************)
ToolCall(t, r, now) ==
    /\ Free(t)
    /\ nops < MaxOps
    /\ Creates(r) => HasRoom
    /\ \E c1 \in {IF ReadsCache(r) THEN LoadBookmarks(cache, fs) ELSE cache},
          s \in {StoreCall(fs, r, now)} :
        \E next \in {IF s.ret = "true" THEN AfterGetTracker("record") ELSE "idle"} :
           LET waits == next \in {"init", "record"}
           IN  /\ fs' = s.fs
               /\ cache' = IF s.ret = "raise" THEN c1 ELSE InvalidateBookmarksCache(c1)
               /\ commits' = IF s.ret = "true"
                             THEN [commits EXCEPT !.tool = @ + 1] ELSE commits
               /\ tracker' = IF next = "init" THEN "created" ELSE tracker
               /\ pc' = [pc EXCEPT ![t] = IF waits THEN next ELSE "idle"]
               /\ req' = [req EXCEPT ![t] = IF waits THEN r ELSE NoReq]
               /\ loc' = [loc EXCEPT ![t] =
                            IF waits THEN ToolDetails(r, c1.list, s.count) ELSE NoLoc]
               /\ result' = [result EXCEPT ![t] = Outcome(r.tool,
                            CASE s.ret = "raise" -> "error"
                              [] s.ret = "false" ->
                                    IF r.tool = "bulk_move" THEN "moved0" ELSE "failed"
                              [] next = "raise" -> "error"
                              [] OTHER -> "pending")]
    /\ clock' = now
    /\ nops' = nops + 1
    /\ UNCHANGED log
    /\ UNCHANGED <<writerVars, storeVars, bridgeVars>>

\* ChangeTracker.initialize: the connection is open.
InitDone(t) ==
    /\ pc[t] = "init"
    /\ tracker' = "ready"
    /\ pc' = [pc EXCEPT ![t] = IF req[t].tool = "revert" THEN "fetch" ELSE "record"]
    /\ UNCHANGED <<fs, clock, cache, log, req, loc, result, nops, commits>>
    /\ UNCHANGED <<writerVars, storeVars, bridgeVars>>

\* tracker.record_change(action, url, details): the INSERT, and the return
\* of the tool.
Record(t) ==
    /\ pc[t] = "record"
    /\ log' = RecordChange(log, req[t].tool, ToolUrl(req[t]), loc[t])
    /\ pc' = [pc EXCEPT ![t] = "idle"]
    /\ req' = [req EXCEPT ![t] = NoReq]
    /\ loc' = [loc EXCEPT ![t] = NoLoc]
    /\ result' = [result EXCEPT ![t] = Outcome(req[t].tool, "ok")]
    /\ UNCHANGED <<fs, clock, cache, tracker, nops, commits>>
    /\ UNCHANGED <<writerVars, storeVars, bridgeVars>>

(***************************************************************************)
(* revert_last_change_tool                                                 *)
(***************************************************************************)
RevertCall(t) ==
    /\ Free(t)
    /\ nops < MaxOps
    /\ LET next == AfterGetTracker("fetch")
       IN  /\ tracker' = IF next = "init" THEN "created" ELSE tracker
           /\ pc' = [pc EXCEPT ![t] = IF next = "raise" THEN "idle" ELSE next]
           /\ req' = [req EXCEPT ![t] =
                        IF next = "raise" THEN NoReq
                        ELSE Req("revert", "", <<>>, <<>>, <<>>)]
           /\ result' = [result EXCEPT ![t] = Outcome("revert",
                            IF next = "raise" THEN "error" ELSE "pending")]
    /\ nops' = nops + 1
    /\ UNCHANGED <<fs, clock, cache, log, loc, commits>>
    /\ UNCHANGED <<writerVars, storeVars, bridgeVars>>

\* change = await tracker.get_last_revertable(): the SELECT.
Fetch(t) ==
    /\ pc[t] = "fetch"
    /\ LET change == GetLastRevertable(log)
       IN  IF change = None
           THEN /\ pc' = [pc EXCEPT ![t] = "idle"]
                /\ req' = [req EXCEPT ![t] = NoReq]
                /\ result' = [result EXCEPT ![t] = Outcome("revert", "nothing")]
                /\ UNCHANGED loc
           ELSE /\ pc' = [pc EXCEPT ![t] = "apply"]
                /\ loc' = [loc EXCEPT ![t] = change[1]]
                /\ UNCHANGED <<req, result>>
    /\ UNCHANGED <<fs, clock, cache, tracker, log, nops, commits>>
    /\ UNCHANGED <<writerVars, storeVars, bridgeVars>>

\* The dispatch on change["action"] and the inverse store call.
Apply(t, now) ==
    /\ pc[t] = "apply"
    /\ \E change \in {loc[t]} :
       \E inv \in {InverseReq(change)} :
       \E runs \in {change.action # "create_folder" /\ inv # None} :
         /\ now \in (IF runs THEN Readings(inv[1]) ELSE {clock})
         /\ (runs /\ Creates(inv[1])) => HasRoom
         /\ \E s \in {IF runs THEN StoreCall(fs, inv[1], now)
                       ELSE [fs |-> fs, ret |-> "false", count |-> 0]} :
            \E marks \in {change.action = "create_folder" \/ s.ret = "true"} :
               /\ fs' = s.fs
               /\ cache' = IF runs /\ s.ret # "raise"
                            THEN InvalidateBookmarksCache(cache) ELSE cache
               /\ commits' = IF s.ret = "true"
                             THEN [commits EXCEPT !.undo = @ + 1] ELSE commits
               /\ pc' = [pc EXCEPT ![t] = IF marks THEN "mark" ELSE "idle"]
               /\ req' = [req EXCEPT ![t] = IF marks THEN @ ELSE NoReq]
               /\ loc' = [loc EXCEPT ![t] = IF marks THEN change ELSE NoLoc]
               /\ result' = [result EXCEPT ![t] = Outcome("revert",
                                CASE marks -> "pending"
                                  [] s.ret = "raise" -> "error"
                                  [] OTHER -> "failed")]
    /\ clock' = now
    /\ UNCHANGED <<tracker, log, nops>>
    /\ UNCHANGED <<writerVars, storeVars, bridgeVars>>

\* await tracker.mark_reverted(change["id"]): the UPDATE, and the return.
Mark(t) ==
    /\ pc[t] = "mark"
    /\ log' = MarkReverted(log, loc[t].id)
    /\ pc' = [pc EXCEPT ![t] = "idle"]
    /\ req' = [req EXCEPT ![t] = NoReq]
    /\ loc' = [loc EXCEPT ![t] = NoLoc]
    /\ result' = [result EXCEPT ![t] = Outcome("revert",
                    IF loc[t].action = "create_folder" THEN "skipped" ELSE "reverted")]
    /\ UNCHANGED <<fs, clock, cache, tracker, nops, commits>>
    /\ UNCHANGED <<writerVars, storeVars, bridgeVars>>

(***************************************************************************)
(* list_bookmarks_tool, get_bookmarks_tool: bookmarks = load_bookmarks()   *)
(* is their first statement; what follows it works on that list and        *)
(* changes nothing.                                                        *)
(***************************************************************************)
ListBookmarks ==
    /\ nops < MaxOps
    /\ cache' = LoadBookmarks(cache, fs)
    /\ nops' = nops + 1
    /\ UNCHANGED <<fs, clock, tracker, log, pc, req, loc, result, commits>>
    /\ UNCHANGED <<writerVars, storeVars, bridgeVars>>

Next ==
    \/ \E t \in Tasks, r \in ToolRequests : \E now \in Readings(r) : ToolCall(t, r, now)
    \/ \E t \in Tasks : InitDone(t)
    \/ \E t \in Tasks : Record(t)
    \/ \E t \in Tasks : RevertCall(t)
    \/ \E t \in Tasks : Fetch(t)
    \/ \E t \in Tasks, now \in {clock, clock + 1} : Apply(t, now)
    \/ \E t \in Tasks : Mark(t)
    \/ ListBookmarks

Spec == Init /\ [][Next]_vars

(***************************************************************************)
(* Writer processes.  Every MCP client starts its own server process, so   *)
(* several processes can run the store functions on the same directory.    *)
(* The operating system interleaves them between any two file operations,  *)
(* and a process can be killed at any point.  A writer's step is one file  *)
(* operation of the store function it runs, with what the function does in *)
(* its own memory up to the next one.                                      *)
(***************************************************************************)
WriterRequests ==
    { Req("add", "u3", T2, BB, <<>>),
      Req("rename", "u2", T2, <<>>, <<>>),
      Req("create_folder", "", <<"X">>, BB, <<>>),
      Req("move", "u1", <<>>, BBX, <<>>) }

\* Store calls begun so far.
Started == Len(hist) + Cardinality({w \in Writers : wpc[w] # "idle"})

\* The store function of writer w returns (or raises).
Finish(w, r, ret) ==
    /\ wpc' = [wpc EXCEPT ![w] = "idle"]
    /\ wreq' = [wreq EXCEPT ![w] = NoReq]
    /\ wmem' = [wmem EXCEPT ![w] = NoDoc]
    /\ wret' = [wret EXCEPT ![w] = ret]
    /\ hist' = Append(hist, [req |-> r, ret |-> ret])

\* The call and backup_bookmarks(bookmarks_path).
FsBackup(w, r) ==
    /\ wpc[w] = "idle"
    /\ Started < MaxWrites
    /\ IF fs.doc.st = "absent"
       THEN /\ Finish(w, r, "raise")
            /\ UNCHANGED fs
       ELSE /\ fs' = BackupBookmarks(fs)
            /\ wpc' = [wpc EXCEPT ![w] = "load"]
            /\ wreq' = [wreq EXCEPT ![w] = r]
            /\ wret' = [wret EXCEPT ![w] = "none"]
            /\ UNCHANGED <<wmem, hist>>
    /\ UNCHANGED <<clock, wfd, doc0, handlerVars, bridgeVars>>

\* load_bookmarks_file, the search and the mutation of the loaded document.
FsLoad(w) ==
    /\ wpc[w] = "load"
    /\ \E m \in {InMemory(fs, wreq[w], clock)} :
        IF m.ret = "true"
        THEN /\ wpc' = [wpc EXCEPT ![w] = "open"]
             /\ wmem' = [wmem EXCEPT ![w] = m.doc]
             /\ UNCHANGED <<wreq, wret, hist>>
        ELSE Finish(w, wreq[w], m.ret)
    /\ UNCHANGED <<fs, clock, wfd, doc0, handlerVars, bridgeVars>>

\* with open(temp_path, "w", encoding="utf-8") as f
FsOpen(w) ==
    /\ wpc[w] = "open"
    /\ fs' = OpenTemp(fs)
    /\ wfd' = [wfd EXCEPT ![w] = "tmp"]
    /\ wpc' = [wpc EXCEPT ![w] = "dump"]
    /\ UNCHANGED <<clock, wreq, wmem, wret, doc0, hist, handlerVars, bridgeVars>>

\* json.dump(bookmarks_data, f, indent=3), and the file is closed.
FsDump(w) ==
    /\ wpc[w] = "dump"
    /\ fs' = DumpAt(fs, wfd[w], wmem[w])
    /\ wfd' = [wfd EXCEPT ![w] = "none"]
    /\ wpc' = [wpc EXCEPT ![w] = "replace"]
    /\ UNCHANGED <<clock, wreq, wmem, wret, doc0, hist, handlerVars, bridgeVars>>

\* temp_path.replace(bookmarks_path): FileNotFoundError when another writer
\* has renamed the temporary file away.  A file another writer still holds
\* open under the temporary path is from now on the document.
FsReplace(w) ==
    /\ wpc[w] = "replace"
    /\ IF fs.tmp.st = "absent"
       THEN /\ Finish(w, wreq[w], "raise")
            /\ UNCHANGED <<fs, wfd>>
       ELSE /\ fs' = ReplaceTemp(fs)
            /\ wfd' = [x \in Writers |->
                        CASE wfd[x] = "tmp" -> "doc"
                          [] wfd[x] = "doc" -> "gone"
                          [] OTHER -> wfd[x]]
            /\ Finish(w, wreq[w], "true")
    /\ UNCHANGED <<clock, doc0, handlerVars, bridgeVars>>

\* The process is killed inside a store function.
FsCrash(w) ==
    /\ wpc[w] \in {"load", "open", "dump", "replace"}
    /\ wpc' = [wpc EXCEPT ![w] = "crashed"]
    /\ wfd' = [wfd EXCEPT ![w] = "none"]
    /\ wret' = [wret EXCEPT ![w] = "crashed"]
    /\ UNCHANGED <<fs, clock, wreq, wmem, doc0, hist, handlerVars, bridgeVars>>

NextFS ==
    \/ \E w \in Writers, r \in WriterRequests : FsBackup(w, r)
    \/ \E w \in Writers : FsLoad(w)
    \/ \E w \in Writers : FsOpen(w)
    \/ \E w \in Writers : FsDump(w)
    \/ \E w \in Writers : FsReplace(w)
    \/ \E w \in Writers : FsCrash(w)

SpecFS == Init /\ [][NextFS]_vars

(***************************************************************************)
(* Sequences of store calls.  The store functions are called one after the *)
(* other, by one process, on a document that is one of a few forests:      *)
(* the one of Init, one where the URL u1 occurs twice, and one where two   *)
(* sibling folders have the same name.                                     *)
(***************************************************************************)
OTHER_ROOT == <<"other">>

DupUrlDoc ==
    AsFound(
    [roots |-> [bookmark_bar |-> 1, other |-> 2, synced |-> 3],
     nodes |-> [h \in 1..6 |->
        CASE h = 1 -> FolderNode(1, <<"Bookmarks Bar">>, <<4, 5>>)
          [] h = 2 -> FolderNode(2, <<"Other Bookmarks">>, <<>>)
          [] h = 3 -> FolderNode(3, <<"Mobile Bookmarks">>, <<>>)
          [] h = 4 -> UrlNode(4, T1, "u1")
          [] h = 5 -> FolderNode(5, <<"W">>, <<6>>)
          [] h = 6 -> UrlNode(6, T2, "u1")]])

DupFolderDoc ==
    AsFound(
    [roots |-> [bookmark_bar |-> 1, other |-> 2, synced |-> 3],
     nodes |-> [h \in 1..6 |->
        CASE h = 1 -> FolderNode(1, <<"Bookmarks Bar">>, <<4, 5>>)
          [] h = 2 -> FolderNode(2, <<"Other Bookmarks">>, <<>>)
          [] h = 3 -> FolderNode(3, <<"Mobile Bookmarks">>, <<>>)
          [] h = 4 -> FolderNode(4, <<"W">>, <<>>)
          [] h = 5 -> FolderNode(5, <<"W">>, <<6>>)
          [] h = 6 -> UrlNode(6, T1, "u2")]])

Forests == {InitDoc, DupUrlDoc, DupFolderDoc}

StoreRequests ==
    { Req("add", "u3", T2, BB, <<>>), Req("add", "u3", T2, BBW, <<>>),
      Req("add", "u1", T2, BBW, <<>>),
      Req("add", "u3", T2, BBW \o <<"/">>, <<>>),
      Req("add", "u3", T2, BBX, <<>>) }
    \cup { Req("move", u, <<>>, path, <<>>) :
                u \in {"u1", "u2"}, path \in {BB, BBW, OTHER_ROOT} }
    \cup { Req("rename", "u1", T2, <<>>, <<>>),
           Req("delete", "u1", <<>>, <<>>, <<>>),
           Req("create_folder", "", <<"W">>, BB, <<>>) }

InitStore ==
    /\ \E d \in Forests :
        /\ fs = [doc |-> OkFile(d), bak |-> AbsentFile, tmp |-> AbsentFile]
        /\ doc0 = d
    /\ hist = <<>>
    /\ clock = ClockStart
    /\ HandlersIdle
    /\ WritersIdle
    /\ BridgeDown

\* One call of a store function, from its first statement to its return.
CallStore(r, now) ==
    /\ Len(hist) < MaxCalls
    /\ Creates(r) => HasRoom
    /\ \E s \in {StoreCall(fs, r, now)} :
        /\ fs' = s.fs
        /\ hist' = Append(hist, [req |-> r, ret |-> s.ret])
    /\ clock' = now
    /\ UNCHANGED <<doc0, handlerVars, writerVars, bridgeVars>>

NextStore == \E r \in StoreRequests : \E now \in Readings(r) : CallStore(r, now)

SpecStore == InitStore /\ [][NextStore]_vars

(***************************************************************************)
(* The store functions on a document with a fourth key under "roots" (a    *)
(* Chromium-based browser that keeps a trash folder there) and on one with *)
(* two sibling folders of one name.                                        *)
(***************************************************************************)
TRASH == <<"trash">>

TrashDoc ==
    AsFound(
    [roots |-> [bookmark_bar |-> 1, other |-> 2, synced |-> 3, trash |-> 4],
     nodes |-> [h \in 1..6 |->
        CASE h = 1 -> FolderNode(1, <<"Bookmarks Bar">>, <<5, 6>>)
          [] h = 2 -> FolderNode(2, <<"Other Bookmarks">>, <<>>)
          [] h = 3 -> FolderNode(3, <<"Mobile Bookmarks">>, <<>>)
          [] h = 4 -> FolderNode(4, <<"Trash">>, <<>>)
          [] h = 5 -> UrlNode(5, T1, "u1")
          [] h = 6 -> FolderNode(6, <<"W">>, <<>>)]])

RootsForests == {DupFolderDoc, TrashDoc}

RootsRequests ==
    { Req("add", "u3", T2, BBW, <<>>),
      Req("add", "u3", T2, BBX, <<>>),
      Req("add", "u3", T2, TRASH, <<>>),
      Req("create_folder", "", <<"W">>, BB, <<>>),
      Req("create_folder", "", <<"W">>, TRASH, <<>>),
      Req("move", "u1", <<>>, TRASH, <<>>),
      Req("move", "u2", <<>>, BBW, <<>>) }

InitRoots ==
    /\ \E d \in RootsForests :
        /\ fs = [doc |-> OkFile(d), bak |-> AbsentFile, tmp |-> AbsentFile]
        /\ doc0 = d
    /\ hist = <<>>
    /\ clock = ClockStart
    /\ HandlersIdle
    /\ WritersIdle
    /\ BridgeDown

NextRoots == \E r \in RootsRequests : \E now \in Readings(r) : CallStore(r, now)

SpecRoots == InitRoots /\ [][NextRoots]_vars

(***************************************************************************)
(* The server on a bookmarks file as the browser can leave it: a folder    *)
(* whose name holds a slash, a bookmark with an empty title; or on a       *)
(* profile that has no bookmarks file.                                     *)
(***************************************************************************)
SLASHED == <<"S", "/", "T">>

BrowserDoc ==
    AsFound(
    [roots |-> [bookmark_bar |-> 1, other |-> 2, synced |-> 3],
     nodes |-> [h \in 1..7 |->
        CASE h = 1 -> FolderNode(1, <<"Bookmarks Bar">>, <<4, 6>>)
          [] h = 2 -> FolderNode(2, <<"Other Bookmarks">>, <<>>)
          [] h = 3 -> FolderNode(3, <<"Mobile Bookmarks">>, <<>>)
          [] h = 4 -> FolderNode(4, SLASHED, <<5>>)
          [] h = 5 -> UrlNode(5, T1, "u1")
          [] h = 6 -> FolderNode(6, <<"W">>, <<7>>)
          [] h = 7 -> UrlNode(7, <<>>, "u2")]])

InitBrowser ==
    /\ \E f \in {OkFile(BrowserDoc), AbsentFile} :
        /\ fs = [doc |-> f, bak |-> AbsentFile, tmp |-> AbsentFile]
        /\ doc0 = f.data
    /\ hist = <<>>
    /\ clock = ClockStart
    /\ HandlersIdle
    /\ WritersIdle
    /\ BridgeDown

SpecBrowser == InitBrowser /\ [][Next]_vars

(***************************************************************************)
(* Properties of the change log and of the tool handlers (Spec)            *)
(***************************************************************************)
Unreverted(rows) == {i \in 1..Len(rows) : ~rows[i].reverted}

IsNewestUnreverted(rows, row) ==
    \E i \in Unreverted(rows) :
        /\ rows[i] = row
        /\ \A j \in Unreverted(rows) : j # i => rows[j].id < row.id

LastRevertableIsNewest ==
    LET r == GetLastRevertable(log)
    IN  /\ (r = None) <=> (Unreverted(log) = {})
        /\ r # None => IsNewestUnreverted(log, r[1])

\* C1: whatever rows record_change and mark_reverted have left,
\* get_last_revertable returns the unreverted row of highest id, and None
\* exactly when every row is reverted; revert_last_change takes that row when
\* it fetches, keeps it until it returns, and marks that row and no other.
C1_UndoTargetsNewest ==
    [][ /\ LastRevertableIsNewest
        /\ LastRevertableIsNewest'
        /\ \A t \in Tasks :
            /\ (pc[t] = "fetch" /\ pc'[t] = "apply") =>
                    IsNewestUnreverted(log, loc'[t])
            /\ (pc[t] = "fetch" /\ pc'[t] = "idle") => Unreverted(log) = {}
            /\ (pc[t] = "apply" /\ pc'[t] = "mark") => loc'[t] = loc[t]
            /\ (pc[t] = "mark" /\ pc'[t] = "idle") =>
                    /\ Len(log') = Len(log)
                    /\ \A i \in 1..Len(log) :
                          log'[i] = IF log[i].id = loc[t].id
                                    THEN [log[i] EXCEPT !.reverted = TRUE]
                                    ELSE log[i] ]_vars

\* A recorded rename (row 4) was the newest unreverted row and has been
\* reverted, past the reverted row 3 and ahead of the open rows 1 and 2.
C1_Witness ==
    /\ Len(log) = 4
    /\ log[4].reverted /\ log[3].reverted
    /\ ~log[2].reverted /\ ~log[1].reverted
    /\ \E t \in Tasks : result[t] = Outcome("revert", "reverted")

\* C2: a row of the change log is never deleted, its id, action, url and
\* details never change, and its reverted flag only goes from false to true.
C2_RecordsImmutable ==
    [][ /\ Len(log') >= Len(log)
        /\ \A i \in 1..Len(log) :
            /\ log'[i].id = log[i].id
            /\ log'[i].action = log[i].action
            /\ log'[i].url = log[i].url
            /\ log'[i].details = log[i].details
            /\ log[i].reverted => log'[i].reverted ]_vars

\* Row 2 was marked reverted, then a new mutation was recorded as row 4.
C2_Witness ==
    /\ Len(log) = 4
    /\ log[2].reverted /\ log[3].reverted
    /\ ~log[4].reverted
    /\ \A t \in Tasks : pc[t] = "idle"

UrlAbsent(d, url) ==
    \A h \in DOMAIN d.nodes : ~(d.nodes[h].type = "url" /\ d.nodes[h].url = url)

\* The precondition of the request fails on document d.
PreconditionFails(r, d) ==
    CASE r.tool \in {"add", "create_folder"} -> FindFolderByPath(d, r.path) = 0
      [] r.tool = "move" -> UrlAbsent(d, r.url) \/ FindFolderByPath(d, r.path) = 0
      [] r.tool \in {"rename", "delete"} -> UrlAbsent(d, r.url)
      [] r.tool = "bulk_move" ->
            \A i \in 1..Len(r.moves) :
                \/ UrlAbsent(d, r.moves[i].url)
                \/ FindFolderByPath(d, r.moves[i].target_folder) = 0

\* C3: a tool call whose precondition fails (folder does not resolve, URL not
\* found, no item of a bulk move can be moved) leaves the content of the
\* document file and the change log as they were, reports the failure and
\* schedules no record; the call can be repeated with the same outcome.
C3_FailedCallChangesNothing ==
    [][ \A t \in Tasks, r \in ToolRequests :
            ( /\ nops' = nops + 1
              /\ result'[t].tool = r.tool
              /\ fs.doc.st = "ok"
              /\ PreconditionFails(r, fs.doc.data)
              /\ ToolCall(t, r, clock') )
            => /\ fs'.doc = fs.doc
               /\ log' = log
               /\ pc'[t] = "idle"
               /\ result'[t].st \in {"failed", "moved0"}
               /\ PreconditionFails(r, fs'.doc.data) ]_vars

\* Two calls were made, the last a bulk move that moved nothing; no write was
\* committed and document and log are those of the start.
C3_Witness ==
    /\ nops = 2
    /\ commits = [tool |-> 0, undo |-> 0]
    /\ result[1] = Outcome("bulk_move", "moved0")
    /\ log = InitLog
    /\ fs.doc = OkFile(InitDoc)
    /\ fs.bak = fs.doc

\* C4: when no handler is running, every write a mutation tool committed to
\* the document has its row in the change log.
C4_EveryCommitRecorded ==
    (\A t \in Tasks : pc[t] = "idle") => commits.tool = Len(log) - Len(InitLog)

\* C7: the ids of the nodes of the document are pairwise distinct.
C7_IdsDistinct ==
    fs.doc.st = "ok" =>
        \A g, h \in DOMAIN fs.doc.data.nodes :
            g # h => fs.doc.data.nodes[g].id # fs.doc.data.nodes[h].id

\* The positions at which handle h occurs in the children lists of d.
Positions(d, h) ==
    {pos \in UNION {{<<p, i>> : i \in 1..Len(d.nodes[p].children)} : p \in DOMAIN d.nodes} :
        d.nodes[pos[1]].children[pos[2]] = h}

IsTree(f) ==
    f.doc.st = "ok" =>
        \A h \in DOMAIN f.doc.data.nodes :
            Cardinality(Positions(f.doc.data, h)) =
                IF h \in RootHandles(f.doc.data) THEN 0 ELSE 1

\* The nodes of the document without their position: identity and fields.
NodeFields(d) ==
    {<<h, d.nodes[h].type, d.nodes[h].id, d.nodes[h].name, d.nodes[h].url>> :
        h \in DOMAIN d.nodes}

\* C8: in every document the handlers write, each node other than a root
\* occurs at exactly one position (one folder's children, once), and a root
\* at none; a move, also into the folder the bookmark is in, keeps every
\* node and puts the moved one last in its target folder.
C8_ForestIsTree ==
    [][ /\ IsTree(fs)
        /\ IsTree(fs')
        /\ \A t \in Tasks, r \in ToolRequests :
            ( /\ nops' = nops + 1
              /\ r.tool = "move"
              /\ result'[t].tool = "move"
              /\ ToolCall(t, r, clock)
              /\ commits'.tool = commits.tool + 1 )
            => /\ NodeFields(fs'.doc.data) = NodeFields(fs.doc.data)
               /\ LET target == FindFolderByPath(fs'.doc.data, r.path)
                      ch == fs'.doc.data.nodes[target].children
                  IN  /\ ch # <<>>
                      /\ fs'.doc.data.nodes[ch[Len(ch)]].url = r.url ]_vars

\* u1 was moved into the bookmark bar, the folder it was in: it is now the
\* last child there, after W.
C8_Witness ==
    /\ fs.doc.st = "ok"
    /\ fs.doc.data.nodes[1].children = <<5, 4>>
    /\ \E t \in Tasks : result[t] = Outcome("move", "ok")

(***************************************************************************)
(* Properties of the writer processes (SpecFS)                             *)
(***************************************************************************)
\* C5: what the document path holds is a complete document at every moment,
\* whatever the writers running the store functions are doing and wherever
\* one of them was killed.
C5_DocumentComplete == fs.doc.st = "ok"

\* What a store call that returned True has done is there in document d.
Effect(r, d) ==
    CASE r.tool \in {"add", "rename"} ->
            \E h \in DOMAIN d.nodes :
                d.nodes[h].type = "url" /\ d.nodes[h].url = r.url
                                         /\ d.nodes[h].name = r.title
      [] r.tool = "create_folder" ->
            \E h \in DOMAIN d.nodes :
                d.nodes[h].type = "folder" /\ d.nodes[h].name = r.title
      [] r.tool = "move" ->
            \E h \in DOMAIN d.nodes :
                /\ h = FindFolderByPath(d, r.path)
                /\ \E i \in 1..Len(d.nodes[h].children) :
                        d.nodes[d.nodes[h].children[i]].url = r.url
      [] OTHER -> TRUE

\* C6: the document holds the effect of every store call that returned True
\* (no call's write is lost to a call that ran at the same time).
C6_NoLostUpdate ==
    fs.doc.st = "ok" =>
        \A i \in 1..Len(hist) :
            hist[i].ret = "true" => Effect(hist[i].req, fs.doc.data)

(***************************************************************************)
(* Properties of sequences of store calls (SpecStore)                      *)
(***************************************************************************)
\* Looking r.url up in d, by the locator and in the flattened listing, gives
\* a bookmark titled r.title in the folder r.path.
AddedIsFound(r, d) ==
    LET hit == FirstWithUrl(ReadChromeBookmarks(d), r.url)
        n == LocateByUrl(d, r.url)
    IN  /\ hit # None
        /\ hit[1].title = r.title
        /\ hit[1].folder = r.path
        /\ n.node # 0
        /\ d.nodes[n.node].name = r.title

\* The call just made is add_bookmark, and it returned True.
AddSucceeded(r) ==
    /\ r.tool = "add"
    /\ Len(hist') = Len(hist) + 1
    /\ hist'[Len(hist')] = [req |-> r, ret |-> "true"]
    /\ CallStore(r, clock')

\* C9 as claimed: after add_bookmark(url, title, folder) has returned True,
\* the first match for url has the title given and the folder path given.
C9_AddThenFind ==
    [][ \A r \in StoreRequests :
            AddSucceeded(r) => AddedIsFound(r, fs'.doc.data) ]_vars

\* The path is written as the listing writes it: one of the three root keys
\* first, no slash before it or at the end.
Normalised(path) ==
    /\ Strip(path) = path
    /\ \E k \in 1..Len(RootOrder) : Split(path)[1] = <<RootOrder[k]>>

\* C9 amended: the same, for a URL that no bookmark of the forest has yet
\* and a folder path written without leading or trailing slash.
C9_AddNewThenFind ==
    [][ \A r \in StoreRequests :
            ( /\ AddSucceeded(r)
              /\ UrlAbsent(fs.doc.data, r.url)
              /\ Normalised(r.path) )
            => AddedIsFound(r, fs'.doc.data) ]_vars

\* u3 was added to bookmark_bar/W of the first forest and is found there.
C9_Witness ==
    /\ doc0 = InitDoc
    /\ hist = << [req |-> Req("add", "u3", T2, BBW, <<>>), ret |-> "true"] >>
    /\ AddedIsFound(Req("add", "u3", T2, BBW, <<>>), fs.doc.data)

\* The calls so far are moves of url, and each returned True.
MovesOf(url) ==
    /\ hist # <<>>
    /\ \A i \in 1..Len(hist) :
        /\ hist[i].req.tool = "move"
        /\ hist[i].req.url = url
        /\ hist[i].ret = "true"

\* The last target is the folder that held the bookmark at the start.
BackAtOrigin(url) ==
    /\ LocateByUrl(doc0, url).node # 0
    /\ FindFolderByPath(doc0, hist[Len(hist)].req.path) = LocateByUrl(doc0, url).parent

UrlChildCount(d, h) ==
    Cardinality({i \in 1..Len(d.nodes[h].children) :
                    d.nodes[d.nodes[h].children[i]].type = "url"})

\* The folder path of the bookmark and the number of URL children of every
\* folder are what they were in doc0.
Restored(url) ==
    /\ FirstWithUrl(ReadChromeBookmarks(fs.doc.data), url)[1].folder
            = FirstWithUrl(ReadChromeBookmarks(doc0), url)[1].folder
    /\ \A h \in DOMAIN doc0.nodes :
            doc0.nodes[h].type = "folder" =>
                UrlChildCount(fs.doc.data, h) = UrlChildCount(doc0, h)

\* C10 as claimed: after successful moves of one URL, the last into the folder
\* the bookmark started in, the bookmark's folder path and every folder's
\* number of URL children are as before the sequence.
C10_MoveCycle ==
    \A url \in {"u1", "u2"} : (MovesOf(url) /\ BackAtOrigin(url)) => Restored(url)

UrlCount(d, url) ==
    Cardinality({h \in DOMAIN d.nodes :
                    d.nodes[h].type = "url" /\ d.nodes[h].url = url})

\* C10 amended: the same, for a URL that occurs once in the forest.
C10_MoveCycleOfUniqueUrl ==
    \A url \in {"u1", "u2"} :
        (MovesOf(url) /\ BackAtOrigin(url) /\ UrlCount(doc0, url) = 1)
            => Restored(url)

\* u1 went from the bookmark bar to W, to the other root, and back.
C10_Witness ==
    /\ doc0 = InitDoc
    /\ Len(hist) = 3
    /\ MovesOf("u1")
    /\ hist[1].req.path = BBW
    /\ hist[2].req.path = OTHER_ROOT
    /\ hist[3].req.path = BB
    /\ Restored("u1")

(***************************************************************************)
(* Properties of the tool handlers on a file as found (SpecBrowser)        *)
(***************************************************************************)
\* The server has served two calls, one after the other: the delete tool on
\* url, which deleted and recorded it, and then revert_last_change.
DeletedThenReverted(url) ==
    /\ nops = 2
    /\ \A t \in Tasks : pc[t] = "idle"
    /\ result[1].tool = "revert"
    /\ result[2].tool = "none"
    /\ Len(log) = Len(InitLog) + 1
    /\ log[Len(log)].action = "delete"
    /\ log[Len(log)].url = url

\* The listing of d has a bookmark with the URL, title and folder of b.
Lists(d, b) ==
    \E i \in 1..Len(ReadChromeBookmarks(d)) :
        /\ ReadChromeBookmarks(d)[i].url = b.url
        /\ ReadChromeBookmarks(d)[i].title = b.title
        /\ ReadChromeBookmarks(d)[i].folder = b.folder

\* C11: after the delete tool has deleted a bookmark and revert_last_change
\* has run right after it, the listing has a bookmark with the URL, title
\* and folder path the deleted one had, and the delete row is reverted.
C11_DeleteThenRevertRestores ==
    \A url \in {"u1", "u2", "u3"} :
        DeletedThenReverted(url) =>
            /\ log[Len(log)].reverted
            /\ Lists(fs.doc.data, FirstWithUrl(ReadChromeBookmarks(doc0), url)[1])

(***************************************************************************)
(* Properties of the tool handlers, continued (Spec)                       *)
(***************************************************************************)
\* An item of a bulk move that can be moved in d, and one whose URL no
\* bookmark of d has.
ValidItem(d, item) ==
    /\ ~UrlAbsent(d, item.url)
    /\ FindFolderByPath(d, item.target_folder) # 0

MissingItem(d, item) == UrlAbsent(d, item.url)

NumValid(d, moves) == Cardinality({i \in 1..Len(moves) : ValidItem(d, moves[i])})

\* Folder `folder` of d has a child that is a bookmark with this URL.
HasUrlChild(d, folder, url) ==
    \E i \in 1..Len(d.nodes[folder].children) :
        /\ d.nodes[d.nodes[folder].children[i]].type = "url"
        /\ d.nodes[d.nodes[folder].children[i]].url = url

\* The bulk tool was called with the list m on a document in which every
\* item of m is valid or names a URL that does not exist.
BulkCalled(t, m) ==
    /\ nops' = nops + 1
    /\ result'[t].tool = "bulk_move"
    /\ fs.doc.st = "ok"
    /\ \A i \in 1..Len(m) :
            ValidItem(fs.doc.data, m[i]) \/ MissingItem(fs.doc.data, m[i])
    /\ ToolCall(t, Req("bulk_move", "", <<>>, <<>>, m), clock')

\* C12: a bulk move of N items, K of them naming URLs that do not exist and
\* the others valid, counts N-K moves, leaves every valid item's bookmark in
\* its target folder, and adds no bookmark for an invalid item; with N-K = 0
\* it writes nothing.
C12_BulkMoveCountsValidItems ==
    [][ \A t \in Tasks, m \in BulkLists :
          BulkCalled(t, m) =>
            LET d == fs.doc.data
                n == NumValid(d, m)
            IN  /\ StoreCall(fs, Req("bulk_move", "", <<>>, <<>>, m), clock).count = n
                /\ (n = 0) => (fs'.doc = fs.doc /\ result'[t].st = "moved0")
                /\ (n > 0 /\ pc'[t] # "idle") =>
                        (loc'[t].success_count = n /\ loc'[t].total_requested = Len(m))
                /\ \A i \in 1..Len(m) :
                    /\ ValidItem(d, m[i]) =>
                          HasUrlChild(fs'.doc.data,
                                      FindFolderByPath(d, m[i].target_folder), m[i].url)
                    /\ MissingItem(d, m[i]) => UrlAbsent(fs'.doc.data, m[i].url) ]_vars

\* The list (u3 to W, u1 to W) was moved on the first document: u3 does not
\* exist, u1 is now in W after u2, and the record counts 1 of 2.
C12_Witness ==
    /\ fs.doc.st = "ok"
    /\ fs.doc.data.nodes[5].children = <<6, 4>>
    /\ UrlAbsent(fs.doc.data, "u3")
    /\ Len(log) = Len(InitLog) + 1
    /\ log[Len(log)].action = "bulk_move"
    /\ log[Len(log)].details.success_count = 1
    /\ log[Len(log)].details.total_requested = 2

\* The calls served so far did not overlap: each was taken by the first
\* handler, the second has served none.
OneAtATime == result[2].tool = "none"

\* The rows whose reverted flag the step changes.
Flipped == {i \in 1..Len(log) : log'[i].reverted # log[i].reverted}

\* C13: reverts that run one after the other take the records in descending
\* id order: each marks exactly one record, which was unreverted and below
\* which (in id) lie all the records still unreverted, so a record is
\* reverted only when every newer one is.
C13_UndoInDescendingOrder ==
    [][ \A t \in Tasks :
          (pc[t] = "mark" /\ pc'[t] = "idle" /\ OneAtATime) =>
            /\ Len(log') = Len(log)
            /\ Cardinality(Flipped) = 1
            /\ \A i \in Flipped :
                /\ log[i].id = loc[t].id
                /\ ~log[i].reverted /\ log'[i].reverted
                /\ \A j \in 1..Len(log) : log[j].id > log[i].id => log[j].reverted
                /\ \A j \in 1..Len(log) : log[j].id < log[i].id =>
                        log'[j].reverted = log[j].reverted ]_vars

\* Two reverts, one after the other, on the log of the start: row 2 was
\* taken first, then row 1 (the rename of u1, which has its old title again).
C13_Witness ==
    /\ nops = 2
    /\ OneAtATime
    /\ \A t \in Tasks : pc[t] = "idle"
    /\ log = [i \in 1..Len(InitLog) |-> [InitLog[i] EXCEPT !.reverted = TRUE]]
    /\ result[1] = Outcome("revert", "reverted")
    /\ fs.doc.data.nodes[4].name = T2

\* The inverse of the change cannot be applied to the directory f: none can
\* be built from the details, or the store call's precondition fails.
InverseFails(change, f) ==
    \/ InverseReq(change) = None
    \/ f.doc.st # "ok"
    \/ PreconditionFails(InverseReq(change)[1], f.doc.data)

\* C14: when the inverse of the fetched record cannot be applied, the revert
\* ends without marking: log and document are as they were, the result is a
\* failure, and (calls not overlapping) the next get_last_revertable returns
\* the same record; a record other than a create_folder goes on to be marked
\* only when the inverse store call has committed.
C14_FailedUndoLeavesRecordOpen ==
    [][ \A t \in Tasks :
          (pc[t] = "apply" /\ pc'[t] # "apply" /\ loc[t].action # "create_folder") =>
            IF InverseFails(loc[t], fs)
            THEN /\ pc'[t] = "idle"
                 /\ log' = log
                 /\ fs'.doc = fs.doc
                 /\ result'[t].tool = "revert"
                 /\ result'[t].st \in {"failed", "error"}
                 /\ OneAtATime => GetLastRevertable(log') = Some(loc[t])
            ELSE /\ pc'[t] = "mark"
                 /\ loc'[t] = loc[t]
                 /\ commits'.undo = commits.undo + 1 ]_vars

\* u1 was deleted from the folder S/T and the revert could not add it back:
\* the delete record is still open and is what the next revert will fetch.
C14_Witness ==
    /\ nops = 2
    /\ OneAtATime
    /\ \A t \in Tasks : pc[t] = "idle"
    /\ result[1] = Outcome("revert", "failed")
    /\ Len(log) = Len(InitLog) + 1
    /\ log[Len(log)].action = "delete"
    /\ GetLastRevertable(log) = Some(log[Len(log)])
    /\ fs.doc.st = "ok"
    /\ UrlAbsent(fs.doc.data, "u1")

\* C15: a revert that has fetched a create_folder record runs no store call
\* (document, backup and the created folder stay as they are), marks that
\* record reverted and reports skipped; the record the next revert fetches
\* is then the newest unreverted one below it.
C15_CreateFolderUndoSkipped ==
    [][ \A t \in Tasks :
          (pc[t] \in {"apply", "mark"} /\ pc'[t] # pc[t]
                /\ loc[t].action = "create_folder") =>
            /\ fs' = fs
            /\ pc[t] = "apply" =>
                    (pc'[t] = "mark" /\ loc'[t] = loc[t] /\ log' = log)
            /\ pc[t] = "mark" =>
                /\ pc'[t] = "idle"
                /\ result'[t] = Outcome("revert", "skipped")
                /\ \E i \in 1..Len(log') :
                        log'[i].id = loc[t].id /\ log'[i].reverted
                /\ OneAtATime =>
                    \/ GetLastRevertable(log') = None
                    \/ /\ GetLastRevertable(log')[1].id < loc[t].id
                       /\ IsNewestUnreverted(log', GetLastRevertable(log')[1]) ]_vars

\* The folder X was created through the tool and the revert that followed
\* skipped it: X is still there, its record is reverted, and the next revert
\* will fetch row 2.
C15_Witness ==
    /\ nops = 2
    /\ OneAtATime
    /\ \A t \in Tasks : pc[t] = "idle"
    /\ result[1] = Outcome("revert", "skipped")
    /\ Len(log) = Len(InitLog) + 1
    /\ log[Len(log)].action = "create_folder"
    /\ log[Len(log)].reverted
    /\ FindFolderByPath(fs.doc.data, BBX) # 0
    /\ GetLastRevertable(log) = Some(log[2])

\* C18: the bookmark list cache is empty (None) or it is the flattened
\* listing of the document as it is now (the empty list when there is no
\* document to read): no handler step leaves a list read before a write in
\* the cache.
C18_CacheIsCurrent ==
    cache.valid =>
        cache.list = IF fs.doc.st = "ok" THEN ReadChromeBookmarks(fs.doc.data) ELSE <<>>

\* A mutation tool has committed a write and a read that came after it has
\* filled the cache: it holds the listing of the mutated document.
C18_Witness ==
    /\ nops = 2
    /\ commits.tool = 1
    /\ cache.valid
    /\ cache.list = ReadChromeBookmarks(fs.doc.data)
    /\ cache.list # ReadChromeBookmarks(InitDoc)

(***************************************************************************)
(* Properties of the tool handlers on a file as found, continued           *)
(* (SpecBrowser)                                                           *)
(***************************************************************************)
\* C17: a mutation tool called when the bookmarks file is absent fails in its
\* backup: nothing in the directory changes, the tool reports an error and
\* no record is appended or left pending; and the same for the store call of
\* a revert.  When the file is there, the backup a call leaves is the
\* content from before its write.
C17_BackupFirstOrAbort ==
    [][ /\ \A t \in Tasks, r \in ToolRequests :
            (nops' = nops + 1 /\ result'[t].tool = r.tool /\ ToolCall(t, r, clock')) =>
                IF fs.doc.st = "absent"
                THEN /\ fs' = fs
                     /\ log' = log
                     /\ commits' = commits
                     /\ pc'[t] = "idle"
                     /\ result'[t].st = "error"
                ELSE fs'.bak = fs.doc
        /\ \A t \in Tasks :
            (pc[t] = "apply" /\ pc'[t] # "apply" /\ fs.doc.st = "absent"
                    /\ loc[t].action # "create_folder"
                    /\ InverseReq(loc[t]) # None) =>
                /\ fs' = fs
                /\ log' = log
                /\ commits' = commits
                /\ pc'[t] = "idle"
                /\ result'[t] = Outcome("revert", "error") ]_vars

\* There is no bookmarks file; a move was asked for and ended with an
\* error: log and directory are those of the start, no handler is waiting.
C17_Witness ==
    /\ fs = [doc |-> AbsentFile, bak |-> AbsentFile, tmp |-> AbsentFile]
    /\ nops = 1
    /\ \A t \in Tasks : pc[t] = "idle"
    /\ result[1] = Outcome("move", "error")
    /\ log = InitLog
    /\ commits = [tool |-> 0, undo |-> 0]

(***************************************************************************)
(* Properties of the writers, continued (SpecFS)                           *)
(***************************************************************************)
\* C16: when a mutation's write replaces the document, the backup file holds
\* the content that is replaced: after the mutation the backup is the
\* document from before it.
C16_BackupIsPreMutation ==
    [][ \A w \in Writers :
          (wpc[w] = "replace" /\ wpc'[w] = "idle" /\ wret'[w] = "true") =>
                fs'.bak = fs.doc ]_vars

\* The same for store calls made one after the other (SpecStore): after any
\* call the backup is the document from before the call.
BackupIsPreCall ==
    [][ \A r \in StoreRequests :
          (Len(hist') = Len(hist) + 1 /\ hist'[Len(hist')].req = r) =>
                fs'.bak = fs.doc ]_vars

(***************************************************************************)
(* Properties of the store functions on other documents (SpecRoots)        *)
(***************************************************************************)
\* Paths put to the resolver: roots, nested folders, a trailing and a
\* leading slash, another case, a missing segment, a segment below a missing
\* one, the title of a bookmark, a display name, a key that is no root, the
\* empty path.
ProbePaths ==
    { BB, BBW, BBX, OTHER_ROOT, <<>>, <<"/">>,
      BBW \o <<"/">>, <<"/">> \o BBW,
      <<"bookmark_bar", "/", "w">>,
      <<"Bookmark_bar">>,
      BBW \o <<"/", "W">>,
      BBX \o <<"/", "W">>,
      BB \o <<"/">> \o T1,
      BB \o <<"/">> \o T2,
      <<"Bookmarks Bar">>,
      <<"W">>,
      TRASH, TRASH \o <<"/", "W">> }

Segments(p) == Split(Strip(p))

\* child is the first folder named name among the children of parent.
IsFirstMatch(d, parent, child, name) ==
    \E i \in 1..Len(d.nodes[parent].children) :
        /\ d.nodes[parent].children[i] = child
        /\ d.nodes[child].type = "folder"
        /\ d.nodes[child].name = name
        /\ \A j \in 1..(i - 1) :
            LET c == d.nodes[d.nodes[parent].children[j]]
            IN  ~(c.type = "folder" /\ c.name = name)

\* From the folder cur the segments segs lead to the folder h: every
\* segment names the first matching folder child of the folder reached so far.
RECURSIVE LeadsTo(_, _, _, _)
LeadsTo(d, cur, segs, h) ==
    IF segs = <<>> THEN cur = h /\ d.nodes[h].type = "folder"
    ELSE \E i \in 1..Len(d.nodes[cur].children) :
            /\ IsFirstMatch(d, cur, d.nodes[cur].children[i], Head(segs))
            /\ LeadsTo(d, d.nodes[cur].children[i], Tail(segs), h)

\* segs leads to the folder h: its first segment is a root key of d and the
\* following segments lead from that root to h.
Resolves(d, segs, h) ==
    /\ Len(segs[1]) = 1
    /\ segs[1][1] \in DOMAIN d.roots
    /\ LeadsTo(d, d.roots[segs[1][1]], Tail(segs), h)

C19_Resolution ==
    \A p \in ProbePaths :
        \E got \in {FindFolderByPath(fs.doc.data, p)} :
            /\ got \in DOMAIN fs.doc.data.nodes \cup {0}
            /\ \A h \in DOMAIN fs.doc.data.nodes :
                Resolves(fs.doc.data, Segments(p), h) <=> got = h

\* A call whose folder path leads nowhere returns False and leaves the
\* document as it was: no segment is created.
C19_NoPartialCreation ==
    [][ ( /\ Len(hist') = Len(hist) + 1
          /\ hist'[Len(hist')].req.tool \in {"add", "create_folder", "move"}
          /\ \A h \in DOMAIN fs.doc.data.nodes :
                ~Resolves(fs.doc.data, Segments(hist'[Len(hist')].req.path), h) ) =>
            /\ hist'[Len(hist')].ret = "false"
            /\ fs'.doc = fs.doc ]_vars

\* C19: _find_folder_by_path returns a folder exactly when the first segment
\* of the path is a root key and every following segment equals, case and
\* all, the name of a folder child of the folder reached so far, the first
\* such child in children order; otherwise it returns None, and it adds no
\* node: a call whose path does not resolve leaves the document as it was.
C19_ResolveFolder == []C19_Resolution /\ C19_NoPartialCreation

\* Two sibling folders carry the name W; a bookmark added to bookmark_bar/W
\* went to the first of them.
C19_Witness ==
    /\ doc0 = DupFolderDoc
    /\ Len(hist) = 1
    /\ hist[1] = [req |-> Req("add", "u3", T2, BBW, <<>>), ret |-> "true"]
    /\ FindFolderByPath(fs.doc.data, BBW) = 4
    /\ Len(fs.doc.data.nodes[4].children) = 1
    /\ fs.doc.data.nodes[5].children = <<6>>

\* The keys read_chrome_bookmarks and get_folder_structure go through.
FixedRoots == {RootOrder[k] : k \in 1..Len(RootOrder)}

\* The first segment of the path is one of the three fixed keys.
FixedFirst(p) == Len(Segments(p)[1]) = 1 /\ Segments(p)[1][1] \in FixedRoots

\* From the folder cur the names segs lead down to the folder h.
RECURSIVE NamesFrom(_, _, _, _)
NamesFrom(d, cur, segs, h) ==
    IF segs = <<>> THEN cur = h
    ELSE \E i \in 1..Len(d.nodes[cur].children) :
            /\ IsFolder(d, d.nodes[cur].children[i])
            /\ d.nodes[d.nodes[cur].children[i]].name = Head(segs)
            /\ NamesFrom(d, d.nodes[cur].children[i], Tail(segs), h)

\* The folder h is an entry of get_folder_structure: one of its paths names h.
InStructure(d, h) ==
    \E p \in DOMAIN GetFolderStructure(d) :
        /\ Len(Segments(p)[1]) = 1
        /\ Segments(p)[1][1] \in DOMAIN d.roots
        /\ NamesFrom(d, d.roots[Segments(p)[1][1]], Tail(Segments(p)), h)

\* The bookmark h is an entry of the flattened listing.
InListing(d, h) ==
    \E i \in 1..Len(ReadChromeBookmarks(d)) :
        /\ ReadChromeBookmarks(d)[i].url = d.nodes[h].url
        /\ ReadChromeBookmarks(d)[i].id = d.nodes[h].id
        /\ ReadChromeBookmarks(d)[i].title = d.nodes[h].name

\* The nodes the calls so far have created.
Created == DOMAIN fs.doc.data.nodes \ DOMAIN doc0.nodes

\* C20: a path resolves only when its first segment is bookmark_bar, other
\* or synced, whatever keys the document has under "roots": a call naming a
\* folder by any other first segment does not succeed, and every node the
\* calls have created is in the flattened listing (a bookmark) or in
\* get_folder_structure (a folder).
C20_OnlyFixedRootsResolve ==
    /\ \A i \in 1..Len(hist) :
        (hist[i].req.tool \in {"add", "create_folder", "move"}
                /\ ~FixedFirst(hist[i].req.path)) =>
            hist[i].ret # "true"
    /\ \A h \in Created :
        IF IsUrl(fs.doc.data, h) THEN InListing(fs.doc.data, h)
        ELSE InStructure(fs.doc.data, h)

\* Not a claim: on a document with the three fixed keys only, every created
\* node is listed.
CreatedVisibleOnFixedRoots ==
    DOMAIN doc0.roots = FixedRoots =>
        \A h \in Created :
            IF IsUrl(fs.doc.data, h) THEN InListing(fs.doc.data, h)
            ELSE InStructure(fs.doc.data, h)

(***************************************************************************)
(* Properties of the store functions, continued (SpecStore)                *)
(***************************************************************************)
\* The handles below h in pre-order: h, then the subtrees of its children in
\* children order.
RECURSIVE PreOrder(_, _)
RECURSIVE PreOrderOfChildren(_, _, _)
PreOrder(d, h) == <<h>> \o PreOrderOfChildren(d, h, 1)

PreOrderOfChildren(d, h, i) ==
    IF i > Len(d.nodes[h].children) THEN <<>>
    ELSE PreOrder(d, d.nodes[h].children[i]) \o PreOrderOfChildren(d, h, i + 1)

\* Document order: the roots bookmark_bar, other, synced one after the other.
DocumentOrder(d) ==
    PreOrder(d, d.roots["bookmark_bar"]) \o PreOrder(d, d.roots["other"])
        \o PreOrder(d, d.roots["synced"])

\* The first URL node with the url in the sequence of handles seq, or 0.
FirstIn(d, seq, url) ==
    LET hits == {i \in 1..Len(seq) : IsUrl(d, seq[i]) /\ d.nodes[seq[i]].url = url}
    IN  IF hits = {} THEN 0
        ELSE seq[CHOOSE i \in hits : \A j \in hits : i <= j]

\* The first URL node with the url in document order, or 0.
FirstUrlNode(d, url) == FirstIn(d, DocumentOrder(d), url)

\* The folder that has h among its children.
ParentOf(d, h) ==
    CHOOSE p \in DOMAIN d.nodes :
        \E i \in 1..Len(d.nodes[p].children) : d.nodes[p].children[i] = h

ProbeUrls == {"u1", "u2", "u3"}

\* The search of move, rename and delete returns the first URL node in
\* document order, with its parent and its position there; the first entry
\* of the listing with the url is that node's.
C21_Located ==
    \E d \in {fs.doc.data} :
    \E seq \in {DocumentOrder(d)}, listing \in {ReadChromeBookmarks(d)} :
    \A url \in ProbeUrls :
        \E r \in {LocateByUrl(d, url)}, first \in {FirstWithUrl(listing, url)} :
            /\ r.node = FirstIn(d, seq, url)
            /\ r.node = 0 <=> first = None
            /\ r.node # 0 =>
                /\ r.parent # 0
                /\ r.index + 1 \in 1..Len(d.nodes[r.parent].children)
                /\ d.nodes[r.parent].children[r.index + 1] = r.node
                /\ first[1].id = d.nodes[r.node].id
                /\ first[1].title = d.nodes[r.node].name
                /\ \E k \in 1..Len(RootOrder) :
                    /\ Segments(first[1].folder)[1] = <<RootOrder[k]>>
                    /\ NamesFrom(d, d.roots[RootOrder[k]],
                                 Tail(Segments(first[1].folder)), r.parent)

\* A successful move, rename or delete has acted on that node.
C21_ActsOnFirst ==
    [][ ( /\ Len(hist') = Len(hist) + 1
          /\ hist'[Len(hist')].ret = "true"
          /\ hist'[Len(hist')].req.tool \in {"move", "rename", "delete"} ) =>
            \E r \in {hist'[Len(hist')].req} :
            \E h \in {FirstUrlNode(fs.doc.data, r.url)} :
                /\ h # 0
                /\ r.tool = "rename" => fs'.doc.data.nodes[h].name = r.title
                /\ r.tool = "delete" =>
                    \A p \in DOMAIN fs'.doc.data.nodes :
                        \A i \in 1..Len(fs'.doc.data.nodes[p].children) :
                            fs'.doc.data.nodes[p].children[i] # h
                /\ r.tool = "move" =>
                    \E t \in {FindFolderByPath(fs.doc.data, r.path)} :
                        /\ t # 0
                        /\ ParentOf(fs'.doc.data, h) = t
                        /\ fs'.doc.data.nodes[t].children[
                                Len(fs'.doc.data.nodes[t].children)] = h ]_vars

\* C21: the node move, rename and delete act on is the first URL node with
\* the url in pre-order document order over the roots bookmark_bar, other,
\* synced; it is the node of the first entry with that url in the flattened
\* listing, and the parent and index returned with it satisfy
\* parent.children[index] = node.
C21_FirstMatchInDocumentOrder == []C21_Located /\ C21_ActsOnFirst

\* Two bookmarks share the url u1; delete has removed the first in document
\* order and the one in the folder W is still there.
C21_Witness ==
    /\ doc0 = DupUrlDoc
    /\ Len(hist) = 1
    /\ hist[1] = [req |-> Req("delete", "u1", <<>>, <<>>, <<>>), ret |-> "true"]
    /\ fs.doc.data.nodes[1].children = <<5>>
    /\ fs.doc.data.nodes[5].children = <<6>>
    /\ LocateByUrl(fs.doc.data, "u1").node = 6

(***************************************************************************)
(* Properties of the tool handlers: what a mutation leaves alone (Spec)    *)
(***************************************************************************)
\* seq without the members of S, the others in their order.
Without(seq, S) == SelectSeq(seq, LAMBDA x : x \notin S)

Folders(d) == {h \in DOMAIN d.nodes : IsFolder(d, h)}

\* The nodes of e that d does not have.
NewIn(d, e) == DOMAIN e.nodes \ DOMAIN d.nodes

ValidItems(d, moves) == {i \in 1..Len(moves) : ValidItem(d, moves[i])}

\* The nodes the request names in d: the bookmark of a move or a delete,
\* the bookmarks of the valid items of a bulk move.
Subjects(r, d) ==
    CASE r.tool \in {"move", "delete"} -> {FirstUrlNode(d, r.url)} \ {0}
      [] r.tool = "bulk_move" ->
            {FirstUrlNode(d, r.moves[i].url) : i \in ValidItems(d, r.moves)}
      [] OTHER -> {}

\* In every folder of d the children other than the subjects are, in e, the
\* same and in the same order, at the head of the folder's children; what
\* follows them are subjects and new nodes only.
OthersKeepOrder(d, e, S) ==
    \A p \in Folders(d) :
        \E k \in {Len(Without(d.nodes[p].children, S))} :
            /\ p \in DOMAIN e.nodes
            /\ k <= Len(e.nodes[p].children)
            /\ SubSeq(e.nodes[p].children, 1, k) = Without(d.nodes[p].children, S)
            /\ \A j \in (k + 1)..Len(e.nodes[p].children) :
                    e.nodes[p].children[j] \in S \cup NewIn(d, e)

IsLastChild(e, folder, h) ==
    /\ e.nodes[folder].children # <<>>
    /\ e.nodes[folder].children[Len(e.nodes[folder].children)] = h

\* What the successful request r has done to the children lists of d.
OrderEffect(r, d, e) ==
    /\ OthersKeepOrder(d, e, Subjects(r, d))
    /\ r.tool \in {"add", "create_folder"} =>
            /\ Cardinality(NewIn(d, e)) = 1
            /\ \A h \in NewIn(d, e) : IsLastChild(e, FindFolderByPath(d, r.path), h)
    /\ r.tool \notin {"add", "create_folder"} => NewIn(d, e) = {}
    /\ r.tool = "move" =>
            \A h \in Subjects(r, d) : IsLastChild(e, FindFolderByPath(d, r.path), h)
    /\ r.tool = "delete" =>
            \A p \in Folders(d) :
                e.nodes[p].children = Without(d.nodes[p].children, Subjects(r, d))
    /\ r.tool = "bulk_move" =>
            \A i \in ValidItems(d, r.moves) :
                \E t \in {FindFolderByPath(d, r.moves[i].target_folder)},
                   h \in {FirstUrlNode(d, r.moves[i].url)} :
                    \E j \in 1..Len(e.nodes[t].children) :
                        /\ e.nodes[t].children[j] = h
                        /\ j > Len(Without(d.nodes[t].children, Subjects(r, d)))

\* A tool call that has committed a write.
ToolCommitted(t, r) ==
    /\ nops' = nops + 1
    /\ commits'.tool = commits.tool + 1
    /\ result'[t].tool = r.tool
    /\ ToolCall(t, r, clock')

\* An undo that has committed a write.
UndoCommitted(t) ==
    /\ pc[t] = "apply"
    /\ pc'[t] # "apply"
    /\ commits'.undo = commits.undo + 1

\* C22: every successful add, create_folder, move, delete and bulk_move
\* (called by a tool or by the undo) keeps the relative order of the nodes
\* other than its subject in every folder's children; a created or moved
\* node becomes the last child of its target folder, and a removal shifts
\* only the siblings after the removed node.
C22_SiblingOrderPreserved ==
    [][ /\ \A t \in Tasks, r \in ToolRequests :
            ToolCommitted(t, r) => OrderEffect(r, fs.doc.data, fs'.doc.data)
        /\ \A t \in Tasks :
            UndoCommitted(t) =>
                OrderEffect(InverseReq(loc[t])[1], fs.doc.data, fs'.doc.data) ]_vars

\* u1 was moved to the bookmark bar, where it was the first child: the
\* folder W has moved up and u1 is the last child.
C22_Witness ==
    /\ nops = 1
    /\ commits.tool = 1
    /\ result[1].tool = "move"
    /\ fs.doc.data.nodes[1].children = <<5, 4>>
    /\ fs.doc.data.nodes[5].children = <<6>>

\* What the successful request r has left alone in d.
FrameEffect(r, d, e) ==
    /\ e.top = d.top
    /\ e.roots = d.roots
    /\ DOMAIN d.nodes \ DOMAIN e.nodes \subseteq
            (IF r.tool = "delete" THEN Subjects(r, d) ELSE {})
    /\ \A h \in DOMAIN d.nodes \cap DOMAIN e.nodes :
        /\ e.nodes[h].id = d.nodes[h].id
        /\ e.nodes[h].url = d.nodes[h].url
        /\ e.nodes[h].type = d.nodes[h].type
        /\ e.nodes[h].rest = d.nodes[h].rest
        /\ r.tool # "rename" => e.nodes[h].name = d.nodes[h].name
    /\ r.tool = "rename" =>
            \E h \in {FirstUrlNode(d, r.url)} :
                /\ h # 0
                /\ e = [d EXCEPT !.nodes[h].name = r.title]
    /\ r.tool \in {"move", "bulk_move"} =>
            \A h \in Subjects(r, d) : e.nodes[h] = d.nodes[h]

\* C23: a successful rename changes only the name of the one located node;
\* every mutation (called by a tool or by the undo) leaves unchanged the
\* top-level keys of the document other than roots and the id, url, type and
\* further keys of every node it does not create or delete; a move changes
\* no field of the moved node.
C23_OnlyTheSubjectChanges ==
    [][ /\ \A t \in Tasks, r \in ToolRequests :
            ToolCommitted(t, r) => FrameEffect(r, fs.doc.data, fs'.doc.data)
        /\ \A t \in Tasks :
            UndoCommitted(t) =>
                FrameEffect(InverseReq(loc[t])[1], fs.doc.data, fs'.doc.data) ]_vars

\* u2 was renamed from t1 to t2: its node has the new name and, as before,
\* the keys the browser gave it; the document has its top-level keys.
C23_Witness ==
    /\ nops = 1
    /\ commits.tool = 1
    /\ result[1].tool = "rename"
    /\ fs.doc.data = [InitDoc EXCEPT !.nodes[6].name = T2]
    /\ fs.doc.data.nodes[6].rest = {"date_added", "guid", "meta_info"}
    /\ fs.doc.data.top = {"checksum", "version"}

\* The number of bookmarks: the length of the flattened listing.
NumBookmarks(f) == Len(ReadChromeBookmarks(f.doc.data))

\* By how much a call of the tool changes the number of bookmarks, when it
\* has committed a write and when it has not.
ExpectedChange(tool, committed) ==
    IF ~committed THEN 0
    ELSE CASE tool = "add" -> 1
           [] tool = "delete" -> -1
           [] OTHER -> 0

\* C24: the number of URL nodes of the forest (the length of the flattened
\* listing) changes by +1 on a successful add, by -1 on a successful delete
\* and by 0 on move, rename, create_folder, bulk_move and on every failed
\* operation, whether a tool or the undo has called it; no other step
\* changes it.
C24_BookmarkCount ==
    [][ /\ \A t \in Tasks, r \in ToolRequests :
            (nops' = nops + 1 /\ result'[t].tool = r.tool /\ ToolCall(t, r, clock')) =>
                NumBookmarks(fs') - NumBookmarks(fs) =
                    ExpectedChange(r.tool, commits'.tool = commits.tool + 1)
        /\ \A t \in Tasks :
            (pc[t] = "apply" /\ pc'[t] # "apply") =>
                NumBookmarks(fs') - NumBookmarks(fs) =
                    IF InverseReq(loc[t]) = None THEN 0
                    ELSE ExpectedChange(InverseReq(loc[t])[1].tool,
                                        commits'.undo = commits.undo + 1)
        /\ (nops' = nops /\ \A t \in Tasks : pc[t] # "apply") =>
                NumBookmarks(fs') = NumBookmarks(fs) ]_vars

\* A bookmark was added and then a bookmark was deleted: the listing has as
\* many entries as at the start, and the deleted url is gone from it.
C24_Witness ==
    /\ nops = 2
    /\ commits.tool = 2
    /\ result[1].tool = "delete"
    /\ NumBookmarks(fs) = Len(ReadChromeBookmarks(InitDoc))
    /\ UrlAbsent(fs.doc.data, "u1")
    /\ ~UrlAbsent(fs.doc.data, "u3")

(***************************************************************************)
(* Properties of the folder structure summary (Spec)                       *)
(***************************************************************************)
\* The derived path of the folder h: the root key, then the names of the
\* folders from the root down to h.
RECURSIVE PathOf(_, _)
PathOf(d, h) ==
    IF \E k \in DOMAIN d.roots : d.roots[k] = h
    THEN <<CHOOSE k \in DOMAIN d.roots : d.roots[k] = h>>
    ELSE JoinPath(PathOf(d, ParentOf(d, h)), d.nodes[h].name)

\* The immediate children of h of the type.
Immediate(d, h, type) ==
    Cardinality({i \in 1..Len(d.nodes[h].children) :
                    d.nodes[d.nodes[h].children[i]].type = type})

\* No other folder of d has the derived path of h.
UniquePath(d, h) ==
    \A g \in Folders(d) : g # h => PathOf(d, g) # PathOf(d, h)

\* The summary has an entry under the derived path of every folder in H, with
\* the folder's own tallies.
EntriesAreTallies(d, H) ==
    \E s \in {GetFolderStructure(d)} :
        /\ DOMAIN s = {PathOf(d, h) : h \in Folders(d)}
        /\ \A h \in H :
            s[PathOf(d, h)] = [bookmarks |-> Immediate(d, h, "url"),
                               subfolders |-> Immediate(d, h, "folder")]

\* The move tool has moved a bookmark from the folder a to the folder b.
MovedBetween(t, r, a, b) ==
    /\ r.tool = "move"
    /\ ToolCommitted(t, r)
    /\ a = ParentOf(fs.doc.data, FirstUrlNode(fs.doc.data, r.url))
    /\ b = FindFolderByPath(fs.doc.data, r.path)
    /\ a # b

\* The entry of a has one bookmark less and the entry of b one more.
TalliesFollow(a, b) ==
    \E s \in {GetFolderStructure(fs.doc.data)}, s2 \in {GetFolderStructure(fs'.doc.data)} :
        /\ s2[PathOf(fs.doc.data, a)].bookmarks = s[PathOf(fs.doc.data, a)].bookmarks - 1
        /\ s2[PathOf(fs.doc.data, b)].bookmarks = s[PathOf(fs.doc.data, b)].bookmarks + 1

\* C25 as stated: get_folder_structure has an entry for each root and for
\* the derived path of every folder, each entry holding the numbers of
\* immediate url children and immediate folder children of that folder; a
\* successful move of a bookmark from folder A to another folder B makes A's
\* bookmarks value one less and B's one more.
C25_FolderStructure ==
    /\ [](fs.doc.st = "ok" => EntriesAreTallies(fs.doc.data, Folders(fs.doc.data)))
    /\ [][ \A t \in Tasks, r \in ToolRequests, a, b \in Folders(fs.doc.data) :
                MovedBetween(t, r, a, b) => TalliesFollow(a, b) ]_vars

\* Not a claim: the same for folders that share their derived path with no
\* other folder.  Every folder's derived path has an entry; the entry of a
\* folder with a path of its own holds that folder's immediate tallies, and
\* a move between two such folders takes one from A's bookmarks and adds
\* one to B's.
StructureOfUniquePaths ==
    /\ [](fs.doc.st = "ok" =>
            EntriesAreTallies(fs.doc.data,
                {h \in Folders(fs.doc.data) : UniquePath(fs.doc.data, h)}))
    /\ [][ \A t \in Tasks, r \in ToolRequests, a, b \in Folders(fs.doc.data) :
                ( /\ MovedBetween(t, r, a, b)
                  /\ UniquePath(fs.doc.data, a)
                  /\ UniquePath(fs.doc.data, b) ) => TalliesFollow(a, b) ]_vars

(***************************************************************************)
(* Properties of the tool handlers: folders (Spec)                         *)
(***************************************************************************)
\* Paths of folders that exist at the start or that a tool call can create.
FolderPaths == {BB, OTHER_ROOT, BBW, BBX, BBX \o <<"/", "X">>, BBW \o <<"/", "X">>}

\* The folder h of d is in e what it was in d: a folder of the same name and
\* fields under the same parent (or the same root), behind the same folders.
FolderStays(d, e, h) ==
    /\ h \in Folders(e)
    /\ e.nodes[h].name = d.nodes[h].name
    /\ e.nodes[h].id = d.nodes[h].id
    /\ \A k \in DOMAIN d.roots : d.roots[k] = h => e.roots[k] = h
    /\ h \notin RootHandles(d) =>
            /\ h \notin RootHandles(e)
            /\ ParentOf(e, h) = ParentOf(d, h)
            /\ \E p \in {ParentOf(d, h)} :
                    Without(e.nodes[p].children, DOMAIN e.nodes \ Folders(d))
                        = Without(d.nodes[p].children, DOMAIN d.nodes \ Folders(d))

\* C26: no step of any tool or undo moves, renames or deletes a root or any
\* other folder: every folder stays where it is under its name, the set of
\* folders only grows, and a folder path that resolves keeps resolving to the
\* same folder.
C26_FoldersStay ==
    [][ (fs.doc.st = "ok" /\ fs'.doc # fs.doc) =>
            /\ fs'.doc.st = "ok"
            /\ fs'.doc.data.roots = fs.doc.data.roots
            /\ \A h \in Folders(fs.doc.data) : FolderStays(fs.doc.data, fs'.doc.data, h)
            /\ \A p \in FolderPaths :
                    FindFolderByPath(fs.doc.data, p) # 0 =>
                        FindFolderByPath(fs'.doc.data, p) = FindFolderByPath(fs.doc.data, p) ]_vars

\* u2 was moved out of the folder W to the bookmark bar and the move was
\* undone: the path bookmark_bar/W leads to the folder W as before, and every
\* folder is where it was.
C26_Witness ==
    /\ commits = [tool |-> 1, undo |-> 1]
    /\ log[Len(log)].action = "move"
    /\ log[Len(log)].url = "u2"
    /\ log[Len(log)].reverted
    /\ Folders(fs.doc.data) = {1, 2, 3, 5}
    /\ FindFolderByPath(fs.doc.data, BBW) = 5
    /\ fs.doc.data.nodes[5].children = <<6>>
    /\ fs.doc.data.nodes[1].children = <<4, 5>>

(***************************************************************************)
(* Properties of a tool call and its undo on a file as found (SpecBrowser) *)
(***************************************************************************)
\* The server has served two calls, one after the other: the named tool,
\* which has committed and recorded its change on url, and then
\* revert_last_change.
CalledThenReverted(action, url) ==
    /\ nops = 2
    /\ \A t \in Tasks : pc[t] = "idle"
    /\ result[1].tool = "revert"
    /\ result[2].tool = "none"
    /\ Len(log) = Len(InitLog) + 1
    /\ log[Len(log)].action = action
    /\ log[Len(log)].url = url

\* The (url, title, folder) of the entries of a listing.
Triples(list) ==
    {[url |-> list[i].url, title |-> list[i].title, folder |-> list[i].folder] :
        i \in 1..Len(list)}

\* Two listings have the same multiset of (url, title, folder).
SameEntries(l1, l2) ==
    \A e \in Triples(l1) \cup Triples(l2) :
        Cardinality({i \in 1..Len(l1) :
                        l1[i].url = e.url /\ l1[i].title = e.title /\ l1[i].folder = e.folder})
      = Cardinality({i \in 1..Len(l2) :
                        l2[i].url = e.url /\ l2[i].title = e.title /\ l2[i].folder = e.folder})

\* C27: after the move tool has moved a bookmark to a folder that resolves
\* and revert_last_change has run right after it, the listing has the
\* multiset of (url, title, folder) entries it had before the move, and the
\* move row is reverted.
C27_MoveThenRevertRestores ==
    \A url \in ProbeUrls :
        CalledThenReverted("move", url) =>
            /\ log[Len(log)].reverted
            /\ SameEntries(ReadChromeBookmarks(fs.doc.data), ReadChromeBookmarks(doc0))


\* The title the listing shows for a URL: that of the first entry carrying it.
TitleOf(list, url) ==
    LET i == CHOOSE j \in 1..Len(list) :
                 /\ list[j].url = url
                 /\ \A k \in 1..(j - 1) : list[k].url # url
    IN  list[i].title

HasEntry(list, url) == \E j \in 1..Len(list) : list[j].url = url

\* C28: whatever title a bookmark has (the empty title included), a successful
\* rename through the rename tool immediately followed by revert_last_change
\* gives the bookmark its original title back and marks the rename record
\* reverted.
C28_RenameThenRevertRestores ==
    \A url \in ProbeUrls :
        CalledThenReverted("rename", url) =>
            /\ log[Len(log)].reverted
            /\ \E now \in {ReadChromeBookmarks(fs.doc.data)} :
               \E before \in {ReadChromeBookmarks(doc0)} :
                   /\ HasEntry(now, url)
                   /\ HasEntry(before, url)
                   /\ TitleOf(now, url) = TitleOf(before, url)


\* The folder the listing shows for a URL: that of the first entry carrying it.
FolderOf(list, url) ==
    LET i == CHOOSE j \in 1..Len(list) :
                 /\ list[j].url = url
                 /\ \A k \in 1..(j - 1) : list[k].url # url
    IN  list[i].folder

\* C29: after a bulk move through the bulk tool with at least one success, an
\* immediately following revert_last_change puts every bookmark of the batch
\* whose original folder was recorded back into that folder, the one it had
\* before the batch, and marks the bulk_move record reverted.
C29_BulkThenRevertRestores ==
    CalledThenReverted("bulk_move", "") =>
        /\ log[Len(log)].reverted
        /\ \E now \in {ReadChromeBookmarks(fs.doc.data)} :
           \E before \in {ReadChromeBookmarks(doc0)} :
           \E moves \in {log[Len(log)].details.moves} :
               \A i \in 1..Len(moves) :
                   /\ HasEntry(now, moves[i].url)
                   /\ HasEntry(before, moves[i].url)
                   /\ FolderOf(now, moves[i].url) = moves[i].original_folder
                   /\ FolderOf(now, moves[i].url) = FolderOf(before, moves[i].url)


(***************************************************************************)
(* The store called with batches (SpecBulk): bulk_move_bookmarks next to   *)
(* move_bookmark on the sample forests.                                    *)
(***************************************************************************)
BulkItems ==
    [a |-> [url |-> "u1", target_folder |-> BBW],
     o |-> [url |-> "u2", target_folder |-> OTHER_ROOT],
     n |-> [url |-> "u3", target_folder |-> BBW],          \* no such bookmark
     x |-> [url |-> "u2", target_folder |-> BBX],          \* no such folder
     t |-> [url |-> "u2", target_folder |-> <<>>],         \* falsy target
     e |-> [url |-> "", target_folder |-> BBW]]            \* falsy url

BatchLists ==
    { <<BulkItems.a>>, <<BulkItems.e>>, <<BulkItems.n, BulkItems.a>>,
      <<BulkItems.a, BulkItems.x, BulkItems.o>>, <<BulkItems.t, BulkItems.o>>,
      <<BulkItems.o, BulkItems.e, BulkItems.a>>, <<BulkItems.a, BulkItems.a>>,
      <<BulkItems.x, BulkItems.n>> }

BatchRequests ==
    { Req("bulk_move", "", <<>>, <<>>, m) : m \in BatchLists }
    \cup { Req("add", "u3", T2, BB, <<>>), Req("move", "u2", <<>>, BB, <<>>) }

NextBulk == \E r \in BatchRequests : \E now \in Readings(r) : CallStore(r, now)

SpecBulk == InitStore /\ [][NextBulk]_vars

\* move_bookmark called on every item from position i on, in list order: the
\* directory it leaves and the number of calls that returned True.
RECURSIVE MoveEach(_, _, _, _)
MoveEach(f, moves, i, now) ==
    IF i > Len(moves) THEN [fs |-> f, count |-> 0]
    ELSE LET s == StoreCall(f, Req("move", moves[i].url, <<>>,
                                   moves[i].target_folder, <<>>), now)
             then == MoveEach(s.fs, moves, i + 1, now)
         IN  [fs |-> then.fs, count |-> s.count + then.count]

\* A step that is the call bulk_move_bookmarks(moves).
BatchCalled(moves) ==
    /\ Len(hist') = Len(hist) + 1
    /\ hist'[Len(hist')].req = Req("bulk_move", "", <<>>, <<>>, moves)

\* C30: bulk_move_bookmarks(moves) leaves the document as calling
\* move_bookmark on each item in list order leaves it, and returns the number
\* of those calls that succeed, whatever the forest and the list.
C30_BulkIsEachMove ==
    [][\A moves \in BatchLists :
          BatchCalled(moves) =>
              \E each \in {MoveEach(fs, moves, 1, clock)} :
                  /\ fs'.doc = each.fs.doc
                  /\ StoreCall(fs, Req("bulk_move", "", <<>>, <<>>, moves), clock).count
                         = each.count]_vars

C30_Witness ==
    /\ doc0 = InitDoc
    /\ Len(hist) = 1
    /\ hist[1].req = Req("bulk_move", "", <<>>, <<>>,
                         <<BulkItems.a, BulkItems.x, BulkItems.o>>)
    /\ hist[1].ret = "true"
    /\ fs.doc.data.nodes[1].children = <<5>>
    /\ fs.doc.data.nodes[5].children = <<4>>
    /\ fs.doc.data.nodes[2].children = <<6>>


(***************************************************************************)
(* Properties of the change tracker under overlapping handlers (Spec)      *)
(***************************************************************************)
\* A step in which handler t comes to tracker = await get_change_tracker():
\* a mutation tool after its store call returned True, or revert_last_change.
ReachesGetTracker(t) ==
    \/ RevertCall(t)
    \/ \E r \in ToolRequests : ToolCommitted(t, r)

\* C31: get_change_tracker hands every caller a tracker whose connection is
\* open, also when handlers call it while the first initialization is still
\* awaited; so no handler commits a mutation and then fails to record it
\* for want of an initialized tracker.
C31_TrackerInitialized ==
    [][\A t \in Tasks :
          ReachesGetTracker(t) =>
              /\ tracker # "created"
              /\ result'[t].st # "error"]_vars


(***************************************************************************)
(* The WebSocket bridge to the browser extension (src/src/chrome_bridge.py)*)
(* A command id is a fresh uuid4: command k has the id k.  The future of a *)
(* pending command is "waiting", holds a response ("ok", "error") or is    *)
(* "cancelled" (the timeout of asyncio.wait_for).  A connection is "none"  *)
(* (not made), "open", "dropped" (the socket is closed and its _handler    *)
(* has not yet seen it) or "closed" (its _handler has returned).           *)
(* create_bookmark, create_folder, move_bookmark, rename_bookmark,         *)
(* delete_bookmark and get_tree all are one call of _send_command; the     *)
(* action and params only fill the frame.                                  *)
(***************************************************************************)
\* is_connected
IsConnected == ws # 0 /\ connected

\* The frames an extension can put on the wire.
Response(id, status) == [kind |-> "response", id |-> id, status |-> status]
UnknownId == 99
Frames ==
    { Response(id, status) : id \in Cmds, status \in {"ok", "error"} }
    \cup { Response(UnknownId, "ok") }
    \cup { [kind |-> k, id |-> 0, status |-> ""] : k \in {"keepalive", "pong", "garbage"} }

\* Future.set_result: InvalidStateError when the future is already done.
SetResult(p, id, status) ==
    IF p[id] = "waiting"
    THEN [raised |-> FALSE, pending |-> [p EXCEPT ![id] = status]]
    ELSE [raised |-> TRUE, pending |-> p]

\* One turn of the loop of _handler on the frame msg.
OnMessage(p, msg) ==
    CASE msg.kind = "garbage" -> [raised |-> FALSE, pending |-> p]     \* JSONDecodeError
      [] msg.kind \in {"keepalive", "pong"} -> [raised |-> FALSE, pending |-> p]
      [] msg.id \in DOMAIN p -> SetResult(p, msg.id, msg.status)
      [] OTHER -> [raised |-> FALSE, pending |-> p]

\* self._pending[cmd_id] = future
AddPending(p, k) == [j \in DOMAIN p \cup {k} |-> IF j = k THEN "waiting" ELSE p[j]]

\* The entry left in the map.
PopPending_Keep(p, k) == p

\* self._pending.pop(cmd_id, None)
PopPending(p, k) == [j \in DOMAIN p \ {k} |-> p[j]]

\* The entry made before the connection is looked at.
Begin_AddFirst(p, k, isconn, sock) ==
    IF ~isconn THEN [pending |-> AddPending(p, k), cmd |-> [st |-> "ConnectionError", via |-> 0]]
    ELSE IF sock # "open"
    THEN [pending |-> PopPending(AddPending(p, k), k),
          cmd |-> [st |-> "ConnectionClosed", via |-> 0]]
    ELSE [pending |-> AddPending(p, k), cmd |-> [st |-> "waiting", via |-> ws]]

\* _send_command up to its wait: the check of is_connected, the entry in
\* _pending and the send, which raises ConnectionClosed on a closed socket
\* (then the finally clause pops the entry).
Begin(p, k, isconn, sock) ==
    IF ~isconn THEN [pending |-> p, cmd |-> [st |-> "ConnectionError", via |-> 0]]
    ELSE IF sock # "open"
    THEN [pending |-> PopPending(AddPending(p, k), k),
          cmd |-> [st |-> "ConnectionClosed", via |-> 0]]
    ELSE [pending |-> AddPending(p, k), cmd |-> [st |-> "waiting", via |-> ws]]

\* The timeout that never comes.
Expire_Never(p, k) == p

\* asyncio.wait_for(future, timeout=RESPONSE_TIMEOUT) when the time is up:
\* the future is cancelled.
Expire(p, k) == [p EXCEPT ![k] = "cancelled"]

\* How _send_command ends once its future is done.
Completion(fut) ==
    CASE fut = "ok" -> "returned"
      [] fut = "error" -> "RuntimeError"
      [] fut = "cancelled" -> "TimeoutError"

\* start(): ws_serve returned.
Start ==
    /\ server = "none"
    /\ ~running
    /\ server' = "serving"
    /\ running' = TRUE
    /\ UNCHANGED <<ws, connected, pending, conn, wire, cmd>>
    /\ UNCHANGED <<fs, clock, handlerVars, writerVars, storeVars>>

\* An extension connects: _handler starts on the new connection.
Connect(c) ==
    /\ server = "serving"
    /\ conn[c] = "none"
    /\ conn' = [conn EXCEPT ![c] = "open"]
    /\ ws' = c
    /\ connected' = TRUE
    /\ UNCHANGED <<server, running, pending, wire, cmd>>
    /\ UNCHANGED <<fs, clock, handlerVars, writerVars, storeVars>>

\* The ids of the commands whose frame went out on connection c.
SentOn(c) == {k \in Cmds : cmd[k].via = c}

\* The frames received and not yet read by a _handler.
Unread == Len(wire[1]) + Len(wire[2])

\* The extension sends a frame on its connection.
ExtSend(c, msg) ==
    /\ conn[c] = "open"
    /\ Unread < MaxMsgs
    /\ msg.kind = "response" => msg.id \in SentOn(c) \cup {UnknownId}
    /\ wire' = [wire EXCEPT ![c] = Append(@, msg)]
    /\ UNCHANGED <<server, running, ws, connected, pending, conn, cmd>>
    /\ UNCHANGED <<fs, clock, handlerVars, writerVars, storeVars>>

\* _handler takes the next frame.  An exception that is not ConnectionClosed
\* leaves the loop through the finally clause, and the connection is closed.
Receive(c) ==
    /\ conn[c] \in {"open", "dropped"}
    /\ wire[c] # <<>>
    /\ \E r \in {OnMessage(pending, Head(wire[c]))} :
        /\ pending' = r.pending
        /\ IF r.raised
           THEN /\ conn' = [conn EXCEPT ![c] = "closed"]
                /\ wire' = [wire EXCEPT ![c] = <<>>]
                /\ connected' = FALSE
                /\ ws' = 0
           ELSE /\ wire' = [wire EXCEPT ![c] = Tail(@)]
                /\ UNCHANGED <<conn, connected, ws>>
    /\ UNCHANGED <<server, running, cmd>>
    /\ UNCHANGED <<fs, clock, handlerVars, writerVars, storeVars>>

\* The extension goes away: the socket is closed.
Drop(c) ==
    /\ conn[c] = "open"
    /\ conn' = [conn EXCEPT ![c] = "dropped"]
    /\ UNCHANGED <<server, running, ws, connected, pending, wire, cmd>>
    /\ UNCHANGED <<fs, clock, handlerVars, writerVars, storeVars>>

\* _handler finds the connection closed: the finally clause.
HandlerExit(c) ==
    /\ conn[c] = "dropped"
    /\ wire[c] = <<>>
    /\ conn' = [conn EXCEPT ![c] = "closed"]
    /\ connected' = FALSE
    /\ ws' = 0
    /\ UNCHANGED <<server, running, pending, wire, cmd>>
    /\ UNCHANGED <<fs, clock, handlerVars, writerVars, storeVars>>

\* _send_command from its call to the wait for the response (or its raise).
SendCommand(k) ==
    /\ cmd[k].st = "new"
    /\ \A j \in Cmds : j < k => cmd[j].st # "new"
    /\ \E b \in {Begin(pending, k, IsConnected, IF ws = 0 THEN "none" ELSE conn[ws])} :
        /\ pending' = b.pending
        /\ cmd' = [cmd EXCEPT ![k] = b.cmd]
    /\ UNCHANGED <<server, running, ws, connected, conn, wire>>
    /\ UNCHANGED <<fs, clock, handlerVars, writerVars, storeVars>>

\* RESPONSE_TIMEOUT has passed and the future is not done.
Timeout(k) ==
    /\ cmd[k].st = "waiting"
    /\ pending[k] = "waiting"
    /\ pending' = Expire(pending, k)
    /\ UNCHANGED <<server, running, ws, connected, conn, wire, cmd>>
    /\ UNCHANGED <<fs, clock, handlerVars, writerVars, storeVars>>

\* The task of _send_command runs again: the future is done.
Resume(k) ==
    /\ cmd[k].st = "waiting"
    /\ pending[k] # "waiting"
    /\ cmd' = [cmd EXCEPT ![k].st = Completion(pending[k])]
    /\ pending' = PopPending(pending, k)
    /\ UNCHANGED <<server, running, ws, connected, conn, wire>>
    /\ UNCHANGED <<fs, clock, handlerVars, writerVars, storeVars>>

\* stop(): self._server.close() closes the open connections.
StopBegin ==
    /\ server = "serving"
    /\ server' = "closing"
    /\ conn' = [c \in Conns |-> IF conn[c] = "open" THEN "dropped" ELSE conn[c]]
    /\ UNCHANGED <<running, ws, connected, pending, wire, cmd>>
    /\ UNCHANGED <<fs, clock, handlerVars, writerVars, storeVars>>

\* stop(): wait_closed() has returned, every _handler having returned.
StopEnd ==
    /\ server = "closing"
    /\ \A c \in Conns : conn[c] \in {"none", "closed"}
    /\ server' = "none"
    /\ running' = FALSE
    /\ connected' = FALSE
    /\ ws' = 0
    /\ UNCHANGED <<pending, conn, wire, cmd>>
    /\ UNCHANGED <<fs, clock, handlerVars, writerVars, storeVars>>

InitBridge ==
    /\ fs = [doc |-> OkFile(InitDoc), bak |-> AbsentFile, tmp |-> AbsentFile]
    /\ clock = ClockStart
    /\ HandlersIdle
    /\ WritersIdle
    /\ BridgeDown
    /\ NoSequence

NextBridge ==
    \/ Start
    \/ \E c \in Conns : Connect(c)
    \/ \E c \in Conns, msg \in Frames : ExtSend(c, msg)
    \/ \E c \in Conns : Receive(c)
    \/ \E c \in Conns : Drop(c)
    \/ \E c \in Conns : HandlerExit(c)
    \/ \E k \in Cmds : SendCommand(k)
    \/ \E k \in Cmds : Timeout(k)
    \/ \E k \in Cmds : Resume(k)
    \/ StopBegin
    \/ StopEnd

SpecBridge == InitBridge /\ [][NextBridge]_vars

\* The event loop runs the timers that are due and the tasks that are ready.
LoopTurn == \E k \in Cmds : Timeout(k) \/ Resume(k)

SpecBridgeLive == SpecBridge /\ WF_vars(LoopTurn)


(***************************************************************************)
(* Properties of the bridge (SpecBridge)                                   *)
(***************************************************************************)
\* The commands whose _send_command has made its entry and has not left.
InFlight == {k \in Cmds : cmd[k].st = "waiting"}

Ended == {"returned", "RuntimeError", "TimeoutError", "ConnectionClosed", "ConnectionError"}

\* C32: after any interleaving of commands, responses and timeouts the
\* pending map holds exactly the ids of the commands in flight; a command
\* that has ended (result, extension error, timeout, send failure) has left
\* no entry.
C32_PendingIsInFlight ==
    /\ DOMAIN pending = InFlight
    /\ \A k \in Cmds : cmd[k].st \in Ended => k \notin DOMAIN pending

C32_Witness ==
    /\ cmd[1].st = "TimeoutError"
    /\ cmd[2].st = "waiting"
    /\ DOMAIN pending = {2}
    /\ pending[2] = "error"


\* C33: every command that was sent completes: it returns the result of an
\* ok response, raises RuntimeError on an error response, or raises
\* TimeoutError when no response came in time, also when the extension
\* disconnects while the command is pending (SpecBridgeLive).  A command
\* leaves the wait only in one of these three ways, and time and again no
\* command is waiting, so each command that waits comes out of it.
C33_CommandsComplete ==
    /\ []<>(InFlight = {})
    /\ [][\A k \in Cmds :
             (cmd[k].st = "waiting" /\ cmd'[k].st # "waiting") =>
                 \/ pending[k] = "ok" /\ cmd'[k].st = "returned"
                 \/ pending[k] = "error" /\ cmd'[k].st = "RuntimeError"
                 \/ pending[k] = "cancelled" /\ cmd'[k].st = "TimeoutError"]_vars

\* A command ended by the timeout after its connection went away, another
\* ended by an error response.
C33_Witness ==
    /\ cmd[1] = [st |-> "TimeoutError", via |-> 1]
    /\ conn[1] = "closed"
    /\ cmd[2] = [st |-> "RuntimeError", via |-> 2]


\* The step in which the _handler of connection c takes a frame.
Received(c) == Len(wire'[c]) < Len(wire[c])

\* The frame completes a command: it answers one whose future is waiting.
Answers(msg) ==
    /\ msg.kind = "response"
    /\ msg.id \in DOMAIN pending
    /\ pending[msg.id] = "waiting"

\* The frame changes no pending command and the connection goes on.
Ignored(c) ==
    /\ pending' = pending
    /\ conn'[c] = conn[c]
    /\ connected' = connected
    /\ ws' = ws

\* C34: a response completes only the pending command whose id it carries,
\* a command is completed by at most one response, and a frame with an
\* unknown or already completed id, a keepalive or pong, or unparsable JSON
\* changes no pending command and does not end the connection.
C34_ResponsesMatchCommands ==
    [][\A c \in Conns :
          Received(c) =>
              \E msg \in {Head(wire[c])} :
                  /\ DOMAIN pending' = DOMAIN pending
                  /\ \A k \in DOMAIN pending :
                        pending'[k] # pending[k] =>
                            /\ msg.kind = "response" /\ msg.id = k
                            /\ pending[k] = "waiting"
                            /\ pending'[k] = msg.status
                  /\ ~Answers(msg) => Ignored(c)]_vars

\* Not a claim: the same, but for the frames that carry the id of a command
\* whose future is done and whose entry is still in the map.
ResponsesMatchUnlessDone ==
    [][\A c \in Conns :
          Received(c) =>
              \E msg \in {Head(wire[c])} :
                  /\ DOMAIN pending' = DOMAIN pending
                  /\ \A k \in DOMAIN pending :
                        pending'[k] # pending[k] =>
                            /\ msg.kind = "response" /\ msg.id = k
                            /\ pending[k] = "waiting"
                            /\ pending'[k] = msg.status
                  /\ (~Answers(msg) /\ ~(msg.kind = "response" /\ msg.id \in DOMAIN pending))
                        => Ignored(c)]_vars


\* C35: is_connected is true exactly when an extension connection is open:
\* never false while a _handler is serving an open connection (also when a
\* second connection opened before the first closed), never true after the
\* last one closed or after stop().
C35_IsConnectedExact ==
    /\ (\E c \in Conns : conn[c] = "open") => IsConnected
    /\ (\A c \in Conns : conn[c] \in {"none", "closed"}) => ~IsConnected
    /\ (server = "none" /\ ~running) => ~IsConnected

\* Not a claim: the two directions that do not depend on which connection
\* closed.
NotConnectedWithoutConnection ==
    /\ (\A c \in Conns : conn[c] \in {"none", "closed"}) => ~IsConnected
    /\ (server = "none" /\ ~running) => ~IsConnected


\* The step in which command k is issued.
Issued(k) == cmd[k].st = "new" /\ cmd'[k].st # "new"

\* C36: when the bridge is not connected, a command (create, move, update,
\* remove, getTree) raises ConnectionError, sends nothing and adds no entry
\* to the pending map.
C36_NotConnectedRaises ==
    [][\A k \in Cmds :
          (Issued(k) /\ ~IsConnected) =>
              /\ cmd'[k] = [st |-> "ConnectionError", via |-> 0]
              /\ pending' = pending
              /\ wire' = wire /\ conn' = conn]_vars

\* A command was refused while another one is still pending: the connection
\* was lost after the first was sent.
C36_Witness ==
    /\ cmd[1].st = "waiting"
    /\ cmd[2] = [st |-> "ConnectionError", via |-> 0]
    /\ DOMAIN pending = {1}
    /\ ~IsConnected


(***************************************************************************)
(* Derived paths against the path resolver (SpecStore)                     *)
(***************************************************************************)
\* The URL nodes in document order: the i-th is the node of the i-th entry
\* of the flattened listing.
UrlsInOrder(d) == SelectSeq(DocumentOrder(d), LAMBDA h : IsUrl(d, h))

\* Every entry's folder path resolves to the folder its bookmark is in.
ListedPathsResolve(d) ==
    \E list \in {ReadChromeBookmarks(d)} :
    \E hs \in {UrlsInOrder(d)} :
        /\ Len(list) = Len(hs)
        /\ \A i \in 1..Len(list) :
              FindFolderByPath(d, list[i].folder) = ParentOf(d, hs[i])

\* The step is a successful create_folder(name, parent): r is its request.
FolderCreated(r) ==
    /\ r.tool = "create_folder"
    /\ Len(hist') = Len(hist) + 1
    /\ hist'[Len(hist')] = [req |-> r, ret |-> "true"]

\* C37: for every bookmark of the flattened listing its derived folder path
\* resolves to the folder that contains it, and after create_folder(name,
\* parentPath) succeeds parentPath/name resolves to the folder just created.
C37_PathsInvert ==
    /\ [](fs.doc.st = "ok" => ListedPathsResolve(fs.doc.data))
    /\ [][\A r \in StoreRequests :
             FolderCreated(r) =>
                 {FindFolderByPath(fs'.doc.data, r.path \o <<"/">> \o r.title)}
                     = NewIn(fs.doc.data, fs'.doc.data)]_vars

\* Not a claim: the same for the folders whose derived path no other folder
\* shares.
UniquePathsInvert ==
    /\ [](fs.doc.st = "ok" =>
            \E d \in {fs.doc.data} :
            \E list \in {ReadChromeBookmarks(d)} :
            \E hs \in {UrlsInOrder(d)} :
                /\ Len(list) = Len(hs)
                /\ \A i \in 1..Len(list) :
                      UniquePath(d, ParentOf(d, hs[i])) =>
                          FindFolderByPath(d, list[i].folder) = ParentOf(d, hs[i]))
    /\ [][\A r \in StoreRequests :
             FolderCreated(r) =>
                 \E e \in {fs'.doc.data} :
                 \A h \in NewIn(fs.doc.data, e) :
                     UniquePath(e, h) =>
                         FindFolderByPath(e, r.path \o <<"/">> \o r.title) = h]_vars


(***************************************************************************)
(* Properties of revert_last_change and the change log (Spec)              *)
(***************************************************************************)
\* A step of the handler t that serves revert_last_change.
RevertStep(t) ==
    \/ RevertCall(t)
    \/ /\ req[t].tool = "revert"
       /\ pc[t] \in {"init", "fetch", "apply", "mark"}
       /\ pc'[t] # pc[t]

\* C38: revert_last_change never appends a ChangeRecord: no step of a revert,
\* successful, failed or skipped, changes the number of records or anything
\* of a record but its reverted flag, also not the step that writes the
\* inverse mutation to the document.
C38_RevertAppendsNothing ==
    [][\A t \in Tasks :
          RevertStep(t) =>
              /\ Len(log') = Len(log)
              /\ \A i \in 1..Len(log) :
                    log'[i] = [log[i] EXCEPT !.reverted = log'[i].reverted]]_vars

\* A delete was recorded and reverted: four records, the last one reverted.
C38_Witness ==
    /\ result[1] = Outcome("revert", "reverted")
    /\ commits = [tool |-> 1, undo |-> 1]
    /\ Len(log) = Len(InitLog) + 1
    /\ log[Len(log)].action = "delete"
    /\ log[Len(log)].reverted


\* The step in which handler t's revert ends with its inverse having failed.
InverseFailed(t) ==
    /\ pc[t] = "apply"
    /\ pc'[t] = "idle"
    /\ result'[t] = Outcome("revert", "failed")

\* C39: a record is marked reverted only at a moment when it is the
\* highest-id unreverted record; a revert whose inverse fails changes neither
\* the log nor the document, so that the next revert targets the same
\* record and no older record is reverted meanwhile.
C39_MarkedWhenNewest ==
    [][\A t \in Tasks :
          /\ (pc[t] = "mark" /\ pc'[t] = "idle") =>
                \A i \in 1..Len(log) :
                    (~log[i].reverted /\ log'[i].reverted) =>
                        IsNewestUnreverted(log, log[i])
          /\ InverseFailed(t) =>
                /\ log' = log
                /\ fs'.doc = fs.doc
                /\ GetLastRevertable(log') = Some(loc[t])]_vars

\* Not a claim: the same for calls that do not overlap.
MarkedWhenNewestOneAtATime ==
    [][\A t \in Tasks :
          OneAtATime =>
          /\ (pc[t] = "mark" /\ pc'[t] = "idle") =>
                \A i \in 1..Len(log) :
                    (~log[i].reverted /\ log'[i].reverted) =>
                        IsNewestUnreverted(log, log[i])
          /\ InverseFailed(t) =>
                /\ log' = log
                /\ fs'.doc = fs.doc
                /\ GetLastRevertable(log') = Some(loc[t])]_vars


(***************************************************************************)
(* The server started on a log whose newest row can be undone (SpecUndo):  *)
(* an earlier session deleted u3 from the bookmark bar.                    *)
(***************************************************************************)
InitUndo ==
    /\ fs = [doc |-> OkFile(InitDoc), bak |-> AbsentFile, tmp |-> AbsentFile]
    /\ clock = ClockStart
    /\ cache = NoCache
    /\ tracker = "none"
    /\ log = Append(InitLog,
                    [id |-> 4, action |-> "delete", url |-> "u3",
                     details |-> [title |-> Some(T1), folder |-> Some(BB)],
                     reverted |-> FALSE])
    /\ pc = [t \in Tasks |-> "idle"]
    /\ req = [t \in Tasks |-> NoReq]
    /\ loc = [t \in Tasks |-> NoLoc]
    /\ result = [t \in Tasks |-> Outcome("none", "none")]
    /\ nops = 0
    /\ commits = [tool |-> 0, undo |-> 0]
    /\ WritersIdle
    /\ BridgeDown
    /\ NoSequence

SpecUndo == InitUndo /\ [][Next]_vars

\* The step in which handler t's revert writes the inverse of its record.
InverseApplied(t) ==
    /\ pc[t] = "apply"
    /\ pc'[t] # "apply"
    /\ commits'.undo = commits.undo + 1

\* The inverse of the record was written before: its row is marked, or
\* another handler has written it and is about to mark the row.
AppliedBefore(t, id) ==
    \/ \E i \in 1..Len(log) : log[i].id = id /\ log[i].reverted
    \/ \E u \in Tasks \ {t} : pc[u] = "mark" /\ loc[u].id = id

\* C40: the inverse mutation of each ChangeRecord is applied to the document
\* at most once, also when two revert_last_change calls, or a revert and a
\* mutation tool, interleave at their awaits.
C40_InverseAppliedOnce ==
    [][\A t \in Tasks :
          InverseApplied(t) => ~AppliedBefore(t, loc[t].id)]_vars

\* Not a claim: the same for calls that do not overlap.
InverseAppliedOnceOneAtATime ==
    [][\A t \in Tasks :
          (OneAtATime /\ InverseApplied(t)) => ~AppliedBefore(t, loc[t].id)]_vars

====
